---------------------------- MODULE Spec2Model ----------------------------
(***************************************************************************)
(* Suivi_futs: keg / cup deposit tracking.  The model covers the movement  *)
(* ledger, the Inventory cache, the clients table, the wizard's step-4     *)
(* batch recording, movement deletion, client deletion, stock entry, and   *)
(* the read-side aggregators of utils.py.                                  *)
(*                                                                         *)
(* Conventions                                                             *)
(*   - a product name is a sequence of one-character strings, so that      *)
(*     lower() and substring tests are computed; a form field is a string  *)
(*     that int() / float() read through a table of literals;              *)
(*   - money is an integer number of mills (1/1000 EUR); round(x, 2) is    *)
(*     rounding to the nearest multiple of 10 mills;                       *)
(*   - a nullable column is a sequence: <<>> is NULL/None, <<x>> is x.     *)
(***************************************************************************)
EXTENDS Integers, Sequences, FiniteSets, TLC

VARIABLES
    clients,      \* table Client: the set of existing client ids
    ledger,       \* table Movement: the rows, in insertion order
    inventory,    \* table Inventory: variant_id -> qty, for the existing rows
    next_id,      \* next Movement primary key
    last,         \* the last request handled and its response
    txn,          \* the SQLAlchemy session of a client_delete in progress
    price_ttc,    \* column Variant.price_ttc: variant_id -> nullable price
    reorder,      \* table ReorderRule: variant_id -> min_qty, for the existing rows
    wiz           \* session["wiz"] of each browser: the client and type chosen

vars == <<clients, ledger, inventory, next_id, last, txn, price_ttc, reorder, wiz>>

-----------------------------------------------------------------------------
(* Bounds of the exploration *)

\* movements ever inserted in one run
MaxMovements == 2
\* lines of one submitted batch
MaxLines == 2

-----------------------------------------------------------------------------
(* Text helpers *)

None == <<>>

Some(x) == <<x>>

Upper == <<"A","B","C","D","E","F","G","H","I","J","K","L","M",
           "N","O","P","Q","R","S","T","U","V","W","X","Y","Z","É">>

LowerOf == <<"a","b","c","d","e","f","g","h","i","j","k","l","m",
             "n","o","p","q","r","s","t","u","v","w","x","y","z","é">>

\* str.lower(), one character
LowerChar(ch) ==
    IF \E i \in 1..Len(Upper) : Upper[i] = ch
    THEN LowerOf[CHOOSE i \in 1..Len(Upper) : Upper[i] = ch]
    ELSE ch

\* str.lower()
Lower(s) == [i \in 1..Len(s) |-> LowerChar(s[i])]

\* Python's  sub in s
Contains(s, sub) ==
    \E i \in 0..(Len(s) - Len(sub)) :
        \A j \in 1..Len(sub) : s[i + j] = sub[j]

CupMarkers ==
    { <<"e","c","o","c","u","p">>,
      <<"e","c","o"," ","c","u","p">>,
      <<"g","o","b","e","l","e","t">> }

MaintenanceMarkers ==
    { <<"l","a","v","a","g","e">>, <<"p","e","r","d","u">>,
      <<"p","e","r","t","e">>, <<"w","a","s","h">>,
      <<"c","l","e","a","n">> }

EquipmentMarkers ==
    { <<"m","a","t","é","r","i","e","l">>,
      <<"m","a","t","e","r","i","e","l">> }

SeulMarker == <<"s","e","u","l">>

\* (_is_cup that forgets the maintenance markers)
_is_cup_any_cup(name) ==
    LET n == Lower(name) IN
    /\ name # <<>>
    /\ \E m \in CupMarkers : Contains(n, m)

\* compute_deposits_split._is_cup
_is_cup(name) ==
    LET n == Lower(name) IN
    /\ name # <<>>
    /\ \E m \in CupMarkers : Contains(n, m)
    /\ ~ \E w \in MaintenanceMarkers : Contains(n, w)

\* compute_deposits_split._is_equipment_only_name, and the same test inlined
\* in movement_wizard step 4 and in _is_equipment_only
_is_equipment_only_name(name) ==
    LET n == Lower(name) IN
    /\ name # <<>>
    /\ \E m \in EquipmentMarkers : Contains(n, m)
    /\ Contains(n, SeulMarker)

-----------------------------------------------------------------------------
(* Catalogue: tables Product and Variant, as left by the catalogue page    *)
(* and _ensure_ecocup_simple.  Prices are in mills; price_ttc is the price *)
(* the variant was created with, the column is variable price_ttc.         *)

Products ==
    [ p \in 1..4 |->
        CASE p = 1 -> <<"B","l","o","n","d","e">>
          [] p = 2 -> <<"E","c","o","c","u","p">>
          [] p = 3 -> <<"M","a","t","é","r","i","e","l"," ","s","e","u","l">>
          [] p = 4 -> <<"E","c","o","c","u","p"," ","l","a","v","a","g","e">> ]

VariantRows ==
    [ v \in 1..5 |->
        CASE v = 1 -> [product_id |-> 1, size_l |-> 30, price_ttc |-> Some(100000)]
          [] v = 2 -> [product_id |-> 2, size_l |-> 1,  price_ttc |-> Some(0)]
          [] v = 3 -> [product_id |-> 3, size_l |-> 0,  price_ttc |-> Some(0)]
          [] v = 4 -> [product_id |-> 4, size_l |-> 1,  price_ttc |-> Some(500)]
          [] v = 5 -> [product_id |-> 3, size_l |-> 20, price_ttc |-> Some(50000)] ]

Variants == DOMAIN VariantRows

\* v.product.name
ProductName(v) == Products[VariantRows[v].product_id]

\* the classification of every catalogue entry as compute_deposits_split and
\* step 4 compute it (on the lower-cased name), computed once
IsCupVariant == [v \in Variants |-> _is_cup(Lower(ProductName(v)))]

\* (IsEquipmentOnlyVariant that finds no equipment-only product)
IsEquipmentOnlyVariant_none == [v \in Variants |-> FALSE]

IsEquipmentOnlyVariant ==
    [v \in Variants |-> _is_equipment_only_name(Lower(ProductName(v)))]


\* _is_cup_product (utils) and _is_cup_name (app)
_is_cup_product(name) ==
    LET n == Lower(name) IN
    IF \E m \in CupMarkers : Contains(n, m)
    THEN ~ \E x \in MaintenanceMarkers : Contains(n, x)
    ELSE FALSE

\* _is_equipment_only
_is_equipment_only(name) ==
    LET n == Lower(name) IN
    (\E m \in EquipmentMarkers : Contains(n, m)) /\ Contains(n, SeulMarker)

\* deposit per unit of a cup line with no deposit entered (1.0 EUR)
CupDeposit == 1000

\* deposit per unit of any other line with no deposit entered (30.0 EUR)
KegDeposit == 30000

\* (default_deposit_for_product with the cup deposit for kegs too)
default_deposit_flat(name) ==
    IF _is_equipment_only(name) THEN 0 ELSE CupDeposit

\* default_deposit_for_product, reached through safe_default_deposit
default_deposit_for_product(name) ==
    IF _is_equipment_only(name) THEN 0
    ELSE IF _is_cup_product(name) THEN CupDeposit
    ELSE KegDeposit

DefaultDeposit == [v \in Variants |-> default_deposit_for_product(ProductName(v))]

\* app._is_cup_name
_is_cup_name(name) ==
    LET n == Lower(name) IN
    IF name = <<>> THEN FALSE
    ELSE IF \E w \in MaintenanceMarkers : Contains(n, w) THEN FALSE
    ELSE \E m \in CupMarkers : Contains(n, m)

\* the database the application is deployed on: DATABASE_URL, or the
\* SQLite file by default
Engines == {"sqlite", "postgresql"}

\* func.lower(Product.name) as the database computes it: SQLite lowers the
\* ASCII letters only, PostgreSQL lowers the accented ones too
DbLower(s, engine) ==
    [i \in 1..Len(s) |->
        IF engine = "sqlite" /\ ~ \E k \in 1..26 : Upper[k] = s[i]
        THEN s[i]
        ELSE LowerChar(s[i])]

\* the filters of _beer_totals_for_client on one product name
is_billable_name(name, engine) ==
    LET name_lc == DbLower(name, engine)
        is_cup == \E m \in CupMarkers : Contains(name_lc, m)
        is_maint == \E m \in MaintenanceMarkers : Contains(name_lc, m)
        is_equip == /\ \E m \in EquipmentMarkers : Contains(name_lc, m)
                    /\ Contains(name_lc, SeulMarker)
    IN ~(is_cup /\ is_maint) /\ ~is_equip

-----------------------------------------------------------------------------
(* Form fields.  A field is the text the browser sent.                     *)

IntLiterals ==
    ("-1" :> -1) @@ ("0" :> 0) @@ ("1" :> 1) @@ ("2" :> 2) @@ ("3" :> 3) @@ ("5" :> 5)

\* float(str(raw).replace(",", ".")), in mills; texts outside the table raise
FloatLiterals ==
    ("0,004" :> 4) @@ ("0.004" :> 4) @@ ("1" :> 1000) @@ ("30" :> 30000) @@ ("0" :> 0)

Max(a, b) == IF a >= b THEN a ELSE b

Abs(a) == IF a >= 0 THEN a ELSE -a

\* step 4:  qty_int = max(0, int(q_raw)) if q_raw not in (None, "") else 0,
\* and 0 when int() raises
ParseQty(q_raw) ==
    IF q_raw = "" THEN 0
    ELSE IF q_raw \in DOMAIN IntLiterals THEN Max(0, IntLiterals[q_raw])
    ELSE 0

\* step 4: unit_price_ttc / deposit_per_keg: None when empty or malformed
ParseMoney(raw) ==
    IF raw = "" THEN None
    ELSE IF raw \in DOMAIN FloatLiterals THEN Some(FloatLiterals[raw])
    ELSE None

\* the characters of the four equipment keys of the form
KeyChars ==
    [ tireuse  |-> <<"t", "i", "r", "e", "u", "s", "e">>,
      co2      |-> <<"c", "o", "2">>,
      comptoir |-> <<"c", "o", "m", "p", "t", "o", "i", "r">>,
      tonnelle |-> <<"t", "o", "n", "n", "e", "l", "l", "e">> ]

DigitChar == <<"0", "1", "2", "3", "4", "5", "6", "7", "8", "9">>

\* f"{n}" of a non-negative integer
RECURSIVE Digits(_)
Digits(n) ==
    IF n < 10 THEN <<DigitChar[n + 1]>>
    ELSE Digits(n \div 10) \o <<DigitChar[(n % 10) + 1]>>

\* f"{n}" of an integer
IntChars(n) == IF n < 0 THEN <<"-">> \o Digits(-n) ELSE Digits(n)

\* ";".join(parts)
RECURSIVE Join(_)
Join(parts) ==
    IF parts = <<>> THEN <<>>
    ELSE IF Len(parts) = 1 THEN parts[1]
    ELSE parts[1] \o <<";">> \o Join(Tail(parts))

\* step 4: the equipment counts of the form become the head of notes, as
\* the characters of  key=count;key=count  (free text is not entered; the
\* empty string is stored as None, which is <<>> too)
EquipmentNotes(eq) ==
    LET part(k) == IF eq[k] # 0
                   THEN << KeyChars[k] \o <<"=">> \o IntChars(eq[k]) >>
                   ELSE <<>>
        equip_parts == part("tireuse") \o part("co2") \o part("comptoir")
                          \o part("tonnelle")
    IN Join(equip_parts)

NoEquipment == [k \in {"tireuse", "co2", "comptoir", "tonnelle"} |-> 0]

-----------------------------------------------------------------------------
(* Read side: the aggregators.  L is the content of table Movement.        *)

Get(d, k, default) == IF k \in DOMAIN d THEN d[k] ELSE default

\* SELECT variant_id, COALESCE(SUM(qty), 0) ... WHERE client_id = ? AND type IN ?
\* GROUP BY variant_id
RECURSIVE SumQty(_, _, _, _)
SumQty(L, client_id, types, vid) ==
    IF L = <<>> THEN 0
    ELSE LET m == Head(L) IN
         (IF m.client_id = client_id /\ m.type \in types /\ m.variant_id = vid
          THEN m.qty ELSE 0)
         + SumQty(Tail(L), client_id, types, vid)

GroupSumQty(L, client_id, types) ==
    LET vids == { L[i].variant_id :
                    i \in { j \in 1..Len(L) : /\ L[j].client_id = client_id
                                              /\ L[j].type \in types } }
    IN [vid \in vids |-> SumQty(L, client_id, types, vid)]

BackTypes == {"IN", "DEFECT", "FULL"}

\* (_open_qty_by_variant with FULL left out of the returned types)
_open_qty_by_variant_no_full(L, client_id) ==
    LET out_rows == GroupSumQty(L, client_id, {"OUT"})
        back_rows == GroupSumQty(L, client_id, {"IN", "DEFECT"})
        all_vids == DOMAIN out_rows \cup DOMAIN back_rows
    IN [vid \in all_vids |-> Get(out_rows, vid, 0) - Get(back_rows, vid, 0)]

\* _open_qty_by_variant: {variant_id: OUT - (IN + DEFECT + FULL)}
_open_qty_by_variant(L, client_id) ==
    LET out_rows == GroupSumQty(L, client_id, {"OUT"})
        back_rows == GroupSumQty(L, client_id, BackTypes)
        all_vids == DOMAIN out_rows \cup DOMAIN back_rows
    IN [vid \in all_vids |-> Get(out_rows, vid, 0) - Get(back_rows, vid, 0)]

\* round(x, 2) on mills; a tie goes to the even cent
Round2(x) ==
    LET q == x \div 10
        r == x % 10
    IN IF r < 5 THEN 10 * q
       ELSE IF r > 5 THEN 10 * (q + 1)
       ELSE IF q % 2 = 0 THEN 10 * q ELSE 10 * (q + 1)

\* (DepositSign that skips FULL)
DepositSign_full_skipped(mtype) ==
    IF mtype = "OUT" THEN 1
    ELSE IF mtype \in {"IN", "DEFECT"} THEN -1
    ELSE 0

\* (DepositSign that counts a return like a delivery)
DepositSign_in_positive(mtype) ==
    IF mtype \in {"OUT", "IN"} THEN 1
    ELSE IF mtype \in {"DEFECT", "FULL"} THEN -1
    ELSE 0

\* the sign of a movement type in compute_deposits_split
DepositSign(mtype) ==
    IF mtype = "OUT" THEN 1
    ELSE IF mtype \in {"IN", "DEFECT", "FULL"} THEN -1
    ELSE 0

\* the loop of compute_deposits_split, before the final rounding
RECURSIVE deposits_loop(_, _, _)
deposits_loop(L, client_id, acc) ==
    IF L = <<>> THEN acc
    ELSE
      LET m == Head(L)
          s == DepositSign(m.type)
          is_cup == IsCupVariant[m.variant_id]
          dep_val == IF m.deposit_per_keg = None
                     THEN (IF is_cup THEN CupDeposit ELSE KegDeposit)
                     ELSE m.deposit_per_keg[1]
          skip == \/ m.client_id # client_id
                  \/ m.qty = 0
                  \/ s = 0
                  \/ IsEquipmentOnlyVariant[m.variant_id]
          acc2 == IF skip THEN acc
                  ELSE IF is_cup
                  THEN [acc EXCEPT !.cup_qty = @ + s * m.qty,
                                   !.cup_eur = @ + s * dep_val * m.qty]
                  ELSE [acc EXCEPT !.keg_qty = @ + s * m.qty,
                                   !.keg_eur = @ + s * dep_val * m.qty]
      IN deposits_loop(Tail(L), client_id, acc2)

\* compute_deposits_split: (cup_eur, cup_qty, keg_eur, keg_qty)
compute_deposits_split(L, client_id) ==
    LET acc == deposits_loop(L, client_id,
                   [cup_eur |-> 0, cup_qty |-> 0, keg_eur |-> 0, keg_qty |-> 0])
    IN [cup_eur |-> Round2(acc.cup_eur), cup_qty |-> acc.cup_qty,
        keg_eur |-> Round2(acc.keg_eur), keg_qty |-> acc.keg_qty]

\* the filters of _beer_totals_for_client on lower(Product.name):
\* ~and_(is_cup, is_maint) and ~is_equip  (lower() and LIKE of the database,
\* which on the names of this catalogue give what str.lower and "in" give)
IsBillableVariant ==
    [v \in Variants |->
        LET name_lc == Lower(ProductName(v))
            is_cup == \E m \in CupMarkers : Contains(name_lc, m)
            is_maint == \E m \in MaintenanceMarkers : Contains(name_lc, m)
            is_equip == /\ \E m \in EquipmentMarkers : Contains(name_lc, m)
                        /\ Contains(name_lc, SeulMarker)
        IN ~(is_cup /\ is_maint) /\ ~is_equip]

\* COALESCE(x, 0) on a nullable column
Coalesce(x) == IF x = None THEN 0 ELSE x[1]

\* (_beer_totals_for_client that counts every type)
RECURSIVE _beer_totals_all_types(_, _)
_beer_totals_all_types(L, client_id) ==
    IF L = <<>> THEN [liters_out |-> 0, beer_eur |-> 0]
    ELSE
      LET m == Head(L)
          rest == _beer_totals_all_types(Tail(L), client_id)
      IN IF m.client_id = client_id /\ IsBillableVariant[m.variant_id]
         THEN [ liters_out |-> rest.liters_out + m.qty * VariantRows[m.variant_id].size_l,
                beer_eur   |-> rest.beer_eur + m.qty * Coalesce(m.unit_price_ttc) ]
         ELSE rest

\* (_beer_totals_for_client without the filters on the product name)
RECURSIVE _beer_totals_no_filter(_, _)
_beer_totals_no_filter(L, client_id) ==
    IF L = <<>> THEN [liters_out |-> 0, beer_eur |-> 0]
    ELSE
      LET m == Head(L)
          rest == _beer_totals_no_filter(Tail(L), client_id)
      IN IF m.client_id = client_id /\ m.type = "OUT"
         THEN [ liters_out |-> rest.liters_out + m.qty * VariantRows[m.variant_id].size_l,
                beer_eur   |-> rest.beer_eur + m.qty * Coalesce(m.unit_price_ttc) ]
         ELSE rest

\* (_beer_totals_for_client that bills the price of the catalogue)
RECURSIVE _beer_totals_list_price(_, _)
_beer_totals_list_price(L, client_id) ==
    IF L = <<>> THEN [liters_out |-> 0, beer_eur |-> 0]
    ELSE
      LET m == Head(L)
          rest == _beer_totals_list_price(Tail(L), client_id)
      IN IF /\ m.client_id = client_id
            /\ m.type = "OUT"
            /\ IsBillableVariant[m.variant_id]
         THEN [ liters_out |-> rest.liters_out + m.qty * VariantRows[m.variant_id].size_l,
                beer_eur   |-> rest.beer_eur + m.qty * Coalesce(price_ttc[m.variant_id]) ]
         ELSE rest

\* _beer_totals_for_client: SUM(qty * COALESCE(size_l, 0)) and
\* SUM(qty * COALESCE(unit_price_ttc, 0.0)) over the client's OUT rows that
\* pass the filters
RECURSIVE _beer_totals_for_client(_, _)
_beer_totals_for_client(L, client_id) ==
    IF L = <<>> THEN [liters_out |-> 0, beer_eur |-> 0]
    ELSE
      LET m == Head(L)
          rest == _beer_totals_for_client(Tail(L), client_id)
      IN IF /\ m.client_id = client_id
            /\ m.type = "OUT"
            /\ IsBillableVariant[m.variant_id]
         THEN [ liters_out |-> rest.liters_out + m.qty * VariantRows[m.variant_id].size_l,
                beer_eur   |-> rest.beer_eur + m.qty * Coalesce(m.unit_price_ttc) ]
         ELSE rest

\* summarize_client_detail (liters are whole: round(x, 1) leaves them)
summarize_client_detail(L, client_id) ==
    LET d == compute_deposits_split(L, client_id)
        b == _beer_totals_for_client(L, client_id)
    IN
    [ liters_out_cum  |-> b.liters_out,
      beer_eur        |-> Round2(b.beer_eur),
      deposit_eur     |-> Round2(d.cup_eur + d.keg_eur),
      deposit_cup_eur |-> Round2(d.cup_eur),
      deposit_keg_eur |-> Round2(d.keg_eur),
      cup_qty_in_play |-> d.cup_qty,
      keg_qty_in_play |-> d.keg_qty,
      equipment       |-> <<>> ]

\* summarize_client_for_index: open_total is cup_qty + keg_qty of the
\* deposit split (equipment left out); the sizes of the catalogue are whole
\* litres, which round(x, 1) leaves as they are
summarize_client_for_index(L, client_id) ==
    LET d == compute_deposits_split(L, client_id)
        b == _beer_totals_for_client(L, client_id)
    IN
    [ open_total      |-> d.cup_qty + d.keg_qty,
      cup_qty_in_play |-> d.cup_qty,
      keg_qty_in_play |-> d.keg_qty,
      deposit_eur     |-> Round2(d.cup_eur + d.keg_eur),
      deposit_cup_eur |-> Round2(d.cup_eur),
      deposit_keg_eur |-> Round2(d.keg_eur),
      liters_out_cum  |-> b.liters_out,
      beer_eur        |-> Round2(b.beer_eur) ]

RECURSIVE SumValues(_, _)
SumValues(d, keys) ==
    IF keys = {} THEN 0
    ELSE LET k == CHOOSE x \in keys : TRUE
         IN d[k] + SumValues(d, keys \ {k})

\* utils._is_cup_maintenance
_is_cup_maintenance(name) ==
    LET n == Lower(name) IN
    /\ \E m \in CupMarkers : Contains(n, m)
    /\ \E x \in MaintenanceMarkers : Contains(n, x)

\* the characters of the product names in code-point order
CodeOrder ==
    <<" ">> \o SubSeq(Upper, 1, 26) \o SubSeq(LowerOf, 1, 26) \o <<"É", "é">>

CodePoint(ch) == CHOOSE i \in 1..Len(CodeOrder) : CodeOrder[i] = ch

\* a < b for two names, as ORDER BY Product.name ASC compares them
RECURSIVE NameLess(_, _)
NameLess(a, b) ==
    IF b = <<>> THEN FALSE
    ELSE IF a = <<>> THEN TRUE
    ELSE IF Head(a) # Head(b) THEN CodePoint(Head(a)) < CodePoint(Head(b))
    ELSE NameLess(Tail(a), Tail(b))

\* ORDER BY Product.name ASC, Variant.size_l ASC
StockRowBefore(v, w) ==
    \/ NameLess(ProductName(v), ProductName(w))
    \/ /\ ProductName(v) = ProductName(w)
       /\ VariantRows[v].size_l < VariantRows[w].size_l

\* (get_stock_items that lists the maintenance cups too)
get_stock_items_all(inv, rr) ==
    LET ordered == SortSeq([i \in 1..Cardinality(Variants) |-> i], StockRowBefore)
    IN [i \in 1..Len(ordered) |->
          [ variant_id |-> ordered[i],
            inv_qty |-> Get(inv, ordered[i], 0),
            min_qty |-> Get(rr, ordered[i], 0) ]]

\* get_stock_items: (variant, inv_qty, min_qty) of every variant that is not
\* a maintenance cup, a missing Inventory or ReorderRule row read as 0
get_stock_items(inv, rr) ==
    LET ordered == SortSeq([i \in 1..Cardinality(Variants) |-> i], StockRowBefore)
        shown(v) == ~_is_cup_maintenance(ProductName(v))
        kept == SelectSeq(ordered, shown)
    IN [i \in 1..Len(kept) |->
          [ variant_id |-> kept[i],
            inv_qty |-> Get(inv, kept[i], 0),
            min_qty |-> Get(rr, kept[i], 0) ]]

\* (the alert test without the guard on min_qty)
needs_reorder_any_min(row) == row.inv_qty < row.min_qty

\* compute_reorder_alerts, lines 330-333: the test on one row
needs_reorder(row) == row.min_qty > 0 /\ row.inv_qty < row.min_qty

\* compute_reorder_alerts
compute_reorder_alerts(inv, rr) ==
    LET alerts == SelectSeq(get_stock_items(inv, rr), needs_reorder)
    IN [i \in 1..Len(alerts) |->
          [ variant_id |-> alerts[i].variant_id,
            inv_qty |-> alerts[i].inv_qty,
            min_qty |-> alerts[i].min_qty,
            missing |-> alerts[i].min_qty - alerts[i].inv_qty ]]

\* tolerance of the deletion guard (0.01 EUR)
eps_eur == 10

\* client_delete, lines 380-393: the guard
delete_guard(L, client_id) ==
    LET open_map == _open_qty_by_variant(L, client_id)
        open_total == SumValues(open_map, {v \in DOMAIN open_map : open_map[v] > 0})
        view == summarize_client_detail(L, client_id)
        deposit_in_play == view.deposit_eur
        equipment_dict == view.equipment
        equipment_in_play == SumValues(equipment_dict, DOMAIN equipment_dict)
    IN [ open_total |-> open_total,
         deposit_in_play |-> deposit_in_play,
         equipment_in_play |-> equipment_in_play,
         blocked |-> \/ open_total > 0
                     \/ Abs(deposit_in_play) > eps_eur
                     \/ equipment_in_play > 0 ]

-----------------------------------------------------------------------------
(* Write side.  clients, ledger and inventory are the committed tables.    *)

ClientIds == {1, 2}

MovementTypes == {"OUT", "IN", "DEFECT", "FULL"}

\* Inventory.qty as the stock page reads it: COALESCE(inv_qty, 0)
InvQty(inv, vid) == Get(inv, vid, 0)

\* get_or_create_inventory: a missing row is created with qty = 0
get_or_create_inventory(inv, vid) ==
    IF vid \in DOMAIN inv THEN inv ELSE inv @@ (vid :> 0)

\* (apply_inventory with FULL taken out of stock like OUT)
apply_inventory_full_as_out(inv, vid, mtype, qty_int) ==
    LET inv1 == get_or_create_inventory(inv, vid) IN
    IF mtype \in {"OUT", "FULL"} THEN [inv1 EXCEPT ![vid] = @ - qty_int]
    ELSE inv1

\* step 4, lines 735-740: the stock side effect of one recorded line
apply_inventory(inv, vid, mtype, qty_int) ==
    LET inv1 == get_or_create_inventory(inv, vid) IN
    IF mtype = "OUT" THEN [inv1 EXCEPT ![vid] = @ - qty_int]
    ELSE IF mtype = "FULL" THEN [inv1 EXCEPT ![vid] = @ + qty_int]
    ELSE inv1

\* (reverse_inventory that puts back OUT only)
reverse_inventory_out_only(inv, m) ==
    LET inv1 == get_or_create_inventory(inv, m.variant_id) IN
    IF m.type = "OUT" THEN [inv1 EXCEPT ![m.variant_id] = @ + m.qty]
    ELSE inv1

\* movement_delete lines 799-804 and client_delete lines 412-417: the stock
\* side effect of a movement is reversed
reverse_inventory(inv, m) ==
    LET inv1 == get_or_create_inventory(inv, m.variant_id) IN
    IF m.type = "OUT" THEN [inv1 EXCEPT ![m.variant_id] = @ + m.qty]
    ELSE IF m.type = "FULL" THEN [inv1 EXCEPT ![m.variant_id] = @ - m.qty]
    ELSE inv1

\* (return_refused without the comparison of the quantity)
return_refused_empty_only(mtype, open_q, qty_int) ==
    mtype = "IN" /\ open_q <= 0

\* step 4, lines 715-717: the return check of an IN line
return_refused(mtype, open_q, qty_int) ==
    mtype = "IN" /\ (open_q <= 0 \/ qty_int > open_q)

\* step 4, lines 662-740: the loop over the submitted lines.  acc holds the
\* session's tables and the handler's locals violations / inserted.
RECURSIVE step4_lines(_, _, _, _, _, _)
step4_lines(lines, client_id2, mtype, notes, open_map, acc) ==
    IF lines = <<>> THEN acc
    ELSE
      LET ln == Head(lines)
          vid_int == ln.variant_id
          qty_raw == ParseQty(ln.qty)
          up_raw == ParseMoney(ln.unit_price_ttc)
          dep_raw == ParseMoney(ln.deposit_per_keg)
          known == vid_int \in Variants
          v == VariantRows[vid_int]
          is_equipment_only == IsEquipmentOnlyVariant[vid_int]
          qty_int == IF is_equipment_only THEN 0 ELSE qty_raw
          up == IF is_equipment_only THEN Some(0)
                ELSE IF up_raw = None /\ price_ttc[vid_int] # None
                THEN price_ttc[vid_int]
                ELSE up_raw
          dep == IF is_equipment_only THEN Some(0)
                 ELSE IF dep_raw = None THEN Some(DefaultDeposit[vid_int])
                 ELSE dep_raw
          open_q == Get(open_map, vid_int, 0)
          refused == ~is_equipment_only /\ return_refused(mtype, open_q, qty_int)
          mv == [ id |-> acc.next_id, client_id |-> client_id2,
                  variant_id |-> vid_int, type |-> mtype, qty |-> qty_int,
                  unit_price_ttc |-> up, deposit_per_keg |-> dep,
                  notes |-> notes ]
          acc2 == IF ~known THEN acc
                  ELSE IF refused
                  THEN [acc EXCEPT !.violations =
                                      Append(@, [variant_id |-> vid_int, open_q |-> open_q])]
                  ELSE [acc EXCEPT !.ledger = Append(@, mv),
                                   !.next_id = @ + 1,
                                   !.inserted = @ + 1,
                                   !.inventory = apply_inventory(@, vid_int, mtype, qty_int)]
      IN step4_lines(Tail(lines), client_id2, mtype, notes, open_map, acc2)

\* movement_wizard, step 4, POST (lines 620-755)
step4_post(L, inv, nid, client_id2, mtype, lines, eq) ==
    LET notes == EquipmentNotes(eq)
        open_map == IF mtype = "IN" THEN _open_qty_by_variant(L, client_id2) ELSE <<>>
    IN step4_lines(lines, client_id2, mtype, notes, open_map,
                   [ledger |-> L, inventory |-> inv, next_id |-> nid,
                    violations |-> <<>>, inserted |-> 0])

\* Movement.query.filter_by(client_id=client_id).all()
MovementsOf(L, client_id) ==
    LET keep(m) == m.client_id = client_id IN SelectSeq(L, keep)

\* (delete_one that deletes the row and leaves the stock as it is)
delete_one_no_reverse(tables, m) ==
    LET keep(x) == x.id # m.id IN
    [ ledger |-> SelectSeq(tables.ledger, keep), inventory |-> tables.inventory ]

\* client_delete lines 411-418, one turn of the loop: reverse, then delete
delete_one(tables, m) ==
    LET keep(x) == x.id # m.id IN
    [ ledger |-> SelectSeq(tables.ledger, keep),
      inventory |-> IF m.qty # 0 THEN reverse_inventory(tables.inventory, m)
                    ELSE tables.inventory ]

\* client_delete lines 410-418: the whole loop
RECURSIVE delete_all(_, _)
delete_all(tables, movements) ==
    IF movements = <<>> THEN tables
    ELSE delete_all(delete_one(tables, Head(movements)), Tail(movements))

-----------------------------------------------------------------------------
(* Requests.  last records the request just handled and what the handler   *)
(* answered (the data of its flash message), for the properties to refer   *)
(* to:  inv0 is the stock the handler found, round_trip the stock found by  *)
(* the request before when this one deletes what that one recorded, done   *)
(* the number of movements a client_delete that raised had gone through,   *)
(* view what client_detail handed to its template.                         *)

NoLast ==
    [ op |-> "init", client_id |-> 0, mtype |-> "", violations |-> <<>>,
      inserted |-> 0, blocked |-> FALSE, inv0 |-> None, round_trip |-> None,
      done |-> 0, view |-> None ]

TxnIdle == [pc |-> "idle"]

\* the browsers, each with its session cookie
Browsers == {1, 2}

\* session["wiz"] = {} (line 528): no client and no type chosen
EmptyWiz == [client_id |-> None, type |-> None]

NoWizard == [b \in Browsers |-> EmptyWiz]

StockOf(inv) == [v \in Variants |-> InvQty(inv, v)]

\* the state after create_app(): the catalogue exists, nothing else does
Init ==
    /\ clients = {}
    /\ ledger = <<>>
    /\ inventory = <<>>
    /\ next_id = 1
    /\ last = NoLast
    /\ txn = TxnIdle
    /\ price_ttc = [v \in Variants |-> VariantRows[v].price_ttc]
    /\ reorder = <<>>
    /\ wiz = NoWizard

\* client_new, POST with a name
ClientNew ==
    /\ txn.pc = "idle"
    /\ \E c \in ClientIds \ clients : clients' = clients \cup {c}
    /\ last' = [NoLast EXCEPT !.op = "client_new"]
    /\ UNCHANGED <<ledger, inventory, next_id, txn, price_ttc, reorder, wiz>>

\* movement_wizard, step 4, POST: one batch of lines for the client and the
\* type chosen at step 1.  P gives the sets the form fields are drawn from,
\* max_rows the number of movements ever inserted in the run.
Step4PostUpTo(P, max_rows) ==
    /\ txn.pc = "idle"
    /\ next_id <= max_rows
    /\ \E client_id2 \in clients, mtype \in P.types, eq \in P.eqs, n \in 1..MaxLines :
         \E lines \in [1..n -> P.lines] :
           LET r == step4_post(ledger, inventory, next_id, client_id2, mtype, lines, eq)
           IN /\ r.next_id <= max_rows + 1
              /\ IF r.inserted > 0
                 THEN /\ ledger' = r.ledger
                      /\ inventory' = r.inventory
                      /\ next_id' = r.next_id
                 ELSE UNCHANGED <<ledger, inventory, next_id>>
              /\ last' = [NoLast EXCEPT
                            !.op = "step4", !.client_id = client_id2,
                            !.mtype = mtype, !.violations = r.violations,
                            !.inserted = r.inserted,
                            !.inv0 = Some(StockOf(inventory))]
    /\ UNCHANGED <<clients, txn, price_ttc, reorder, wiz>>

\* the batches of the runs with at most MaxMovements movements
Step4Post(P) == Step4PostUpTo(P, MaxMovements)

\* whether m is the only line on its variant of the batch recorded by the
\* request just before: then the stock that request found is last.inv0
RoundTripOf(m) ==
    IF /\ last.op = "step4"
       /\ m.id >= next_id - last.inserted
       /\ \A i \in 1..Len(ledger) :
            (ledger[i].id >= next_id - last.inserted /\ ledger[i].id # m.id)
               => ledger[i].variant_id # m.variant_id
    THEN Some([variant_id |-> m.variant_id, type |-> m.type, qty |-> m.qty,
               inv_qty |-> last.inv0[1][m.variant_id]])
    ELSE None

\* movement_delete, POST
MovementDelete ==
    /\ txn.pc = "idle"
    /\ \E i \in 1..Len(ledger) :
         LET m == ledger[i]
             keep(x) == x.id # m.id
         IN /\ inventory' = reverse_inventory(inventory, m)
            /\ ledger' = SelectSeq(ledger, keep)
            /\ last' = [NoLast EXCEPT !.op = "movement_delete",
                                      !.round_trip = RoundTripOf(m)]
    /\ UNCHANGED <<clients, next_id, txn, price_ttc, reorder, wiz>>

\* client_delete, POST from browser b: past the guard, the client is taken
\* out of this browser's wizard (lines 405-407), and of no other's
ClientDeleteBy(b) ==
    /\ txn.pc = "idle"
    /\ \E c \in clients :
         LET g == delete_guard(ledger, c)
             t == delete_all([ledger |-> ledger, inventory |-> inventory],
                             MovementsOf(ledger, c))
         IN IF g.blocked
            THEN /\ UNCHANGED <<clients, ledger, inventory, wiz>>
                 /\ last' = [NoLast EXCEPT !.op = "client_delete", !.client_id = c,
                                           !.blocked = TRUE]
            ELSE /\ wiz' = IF wiz[b].client_id = Some(c)
                            THEN [wiz EXCEPT ![b].client_id = None]
                            ELSE wiz
                 /\ clients' = clients \ {c}
                 /\ ledger' = t.ledger
                 /\ inventory' = t.inventory
                 /\ last' = [NoLast EXCEPT !.op = "client_delete", !.client_id = c,
                                           !.inv0 = Some(StockOf(inventory))]
    /\ UNCHANGED <<next_id, txn, price_ttc, reorder>>

\* client_delete, POST
ClientDelete == \E b \in Browsers : ClientDeleteBy(b)

\* stock, POST with one field: qty_<vid> sets Inventory.qty to int(v or 0),
\* min_<vid> sets (or creates) the ReorderRule of the variant; a text int()
\* does not read raises before the commit
StockPost(P) ==
    /\ txn.pc = "idle"
    /\ \E f \in P.stock :
         LET n == IF f.text = "" THEN 0 ELSE IntLiterals[f.text] IN
         /\ f.text = "" \/ f.text \in DOMAIN IntLiterals
         /\ IF f.field = "qty"
            THEN /\ inventory' = [get_or_create_inventory(inventory, f.vid) EXCEPT
                                    ![f.vid] = n]
                 /\ UNCHANGED reorder
            ELSE /\ reorder' = IF f.vid \in DOMAIN reorder
                               THEN [reorder EXCEPT ![f.vid] = n]
                               ELSE reorder @@ (f.vid :> n)
                 /\ UNCHANGED inventory
    /\ last' = [NoLast EXCEPT !.op = "stock"]
    /\ UNCHANGED <<clients, ledger, next_id, txn, price_ttc, wiz>>

\* stock, GET: the rows and the alerts handed to the template
StockGet ==
    /\ txn.pc = "idle"
    /\ last' = [NoLast EXCEPT !.op = "stock_get",
                              !.view = Some(compute_reorder_alerts(inventory, reorder))]
    /\ UNCHANGED <<clients, ledger, inventory, next_id, txn, price_ttc, reorder, wiz>>

\* catalog, POST, action update_prices with one price_<vid> field: an empty
\* text sets NULL, a text float() does not read leaves the price
CatalogUpdatePrices(P) ==
    /\ txn.pc = "idle"
    /\ \E f \in P.prices :
         /\ f.vid \in Variants
         /\ price_ttc' = IF f.text = "" THEN [price_ttc EXCEPT ![f.vid] = None]
                         ELSE IF f.text \in DOMAIN FloatLiterals
                         THEN [price_ttc EXCEPT ![f.vid] = Some(FloatLiterals[f.text])]
                         ELSE price_ttc
    /\ last' = [NoLast EXCEPT !.op = "catalog"]
    /\ UNCHANGED <<clients, ledger, inventory, next_id, txn, reorder, wiz>>

\* client_detail, GET
ClientDetail ==
    /\ txn.pc = "idle"
    /\ \E c \in clients :
         last' = [NoLast EXCEPT !.op = "client_detail", !.client_id = c,
                                !.view = Some(summarize_client_detail(ledger, c))]
    /\ UNCHANGED <<clients, ledger, inventory, next_id, txn, price_ttc, reorder, wiz>>

\* one line of the step-4 form
FormLine(vid, qty, dep) ==
    [variant_id |-> vid, qty |-> qty, unit_price_ttc |-> "", deposit_per_keg |-> dep]

\* what the forms send in the runs explored: deliveries, returns, write-offs
\* and restocking of kegs, cups and equipment, no deposit entered
MainProfile ==
    [ types |-> MovementTypes,
      eqs   |-> {NoEquipment},
      lines |-> { FormLine(1, "1", ""), FormLine(1, "2", ""),
                  FormLine(2, "1", ""), FormLine(3, "2", "") } ]

Next ==
    \/ ClientNew
    \/ Step4Post(MainProfile)
    \/ MovementDelete
    \/ ClientDelete

Spec == Init /\ [][Next]_vars

-----------------------------------------------------------------------------
(* Deposits and loans.  Step 1 stores the type field as it was sent and     *)
(* step 4 reads it back unchecked: "AUTRE" stands for any text that is not  *)
(* one of the four types.  The deposit of a line may be entered, and the    *)
(* eq_* counts of the form go to the notes of every line of the batch.      *)

Tireuse1 == [NoEquipment EXCEPT !["tireuse"] = 1]

TireuseCo2 == [NoEquipment EXCEPT !["tireuse"] = 1, !["co2"] = 2]

DepositProfile ==
    [ types |-> {"OUT", "IN", "FULL", "AUTRE"},
      eqs   |-> {NoEquipment, Tireuse1, TireuseCo2},
      lines |-> { FormLine(1, "1", ""), FormLine(2, "1", "0,004"),
                  FormLine(2, "2", "1"), FormLine(3, "1", "") } ]

NextDeposit ==
    \/ ClientNew
    \/ Step4Post(DepositProfile)
    \/ MovementDelete
    \/ ClientDelete

SpecDeposit == Init /\ [][NextDeposit]_vars

-----------------------------------------------------------------------------
(* client_delete statement by statement.  txn is the database session of   *)
(* the request: tables is what the session would commit, todo the          *)
(* movements the loop has still to go through.  Nothing of tables is in    *)
(* the committed tables before db.session.commit(); a request that raises  *)
(* ends with its session discarded.                                        *)

\* (a failure that leaves what the session had flushed in the tables)
on_failure_keep_flushed(committed, pending) == pending

\* the tables after a request that raised before db.session.commit()
on_failure(committed, pending) == committed

\* client_delete up to line 409: the guard, then the query of the movements
CD_Begin ==
    /\ txn.pc = "idle"
    /\ \E c \in clients :
         IF delete_guard(ledger, c).blocked
         THEN /\ last' = [NoLast EXCEPT !.op = "client_delete", !.client_id = c,
                                        !.blocked = TRUE]
              /\ UNCHANGED txn
         ELSE /\ txn' = [ pc |-> "loop", client_id |-> c, done |-> 0,
                          todo |-> MovementsOf(ledger, c),
                          tables |-> [ledger |-> ledger, inventory |-> inventory] ]
              /\ UNCHANGED last
    /\ UNCHANGED <<clients, ledger, inventory, next_id, price_ttc, reorder, wiz>>

\* lines 410-418, one turn of the loop
CD_Loop ==
    /\ txn.pc = "loop"
    /\ txn.todo # <<>>
    /\ txn' = [txn EXCEPT !.tables = delete_one(@, Head(txn.todo)),
                          !.todo = Tail(@),
                          !.done = @ + 1]
    /\ UNCHANGED <<clients, ledger, inventory, next_id, last, price_ttc, reorder, wiz>>

\* line 420: db.session.delete(c)
CD_DeleteClient ==
    /\ txn.pc = "loop"
    /\ txn.todo = <<>>
    /\ txn' = [txn EXCEPT !.pc = "commit"]
    /\ UNCHANGED <<clients, ledger, inventory, next_id, last, price_ttc, reorder, wiz>>

\* line 421: db.session.commit()
CD_Commit ==
    /\ txn.pc = "commit"
    /\ clients' = clients \ {txn.client_id}
    /\ ledger' = txn.tables.ledger
    /\ inventory' = txn.tables.inventory
    /\ last' = [NoLast EXCEPT !.op = "client_delete", !.client_id = txn.client_id,
                              !.inv0 = Some(StockOf(inventory))]
    /\ txn' = TxnIdle
    /\ UNCHANGED <<next_id, price_ttc, reorder, wiz>>

\* a statement of lines 409-421 raises
CD_Fail ==
    /\ txn.pc \in {"loop", "commit"}
    /\ LET t == on_failure([ledger |-> ledger, inventory |-> inventory], txn.tables)
       IN /\ ledger' = t.ledger
          /\ inventory' = t.inventory
    /\ last' = [NoLast EXCEPT !.op = "client_delete_failed",
                              !.client_id = txn.client_id, !.done = txn.done]
    /\ txn' = TxnIdle
    /\ UNCHANGED <<clients, next_id, price_ttc, reorder, wiz>>

\* deliveries, returns and restocking of kegs, and counts typed on the stock
\* page
TxnProfile ==
    [ types |-> {"OUT", "IN", "FULL"},
      eqs   |-> {NoEquipment},
      lines |-> { FormLine(1, "1", ""), FormLine(1, "2", ""), FormLine(2, "1", "") },
      stock |-> { [field |-> "qty", vid |-> 1, text |-> "3"],
                  [field |-> "qty", vid |-> 1, text |-> ""] } ]

NextTxn ==
    \/ ClientNew
    \/ Step4Post(TxnProfile)
    \/ StockPost(TxnProfile)
    \/ MovementDelete
    \/ CD_Begin
    \/ CD_Loop
    \/ CD_DeleteClient
    \/ CD_Commit
    \/ CD_Fail

SpecTxn == Init /\ [][NextTxn]_vars

-----------------------------------------------------------------------------
(* Deliveries and returns of kegs and cups with the variant's price and    *)
(* the default deposit, and the client pages.                              *)

ScenarioProfile ==
    [ types |-> {"OUT", "IN"},
      eqs   |-> {NoEquipment},
      lines |-> { FormLine(1, "5", ""), FormLine(1, "3", ""),
                  FormLine(2, "1", ""), FormLine(2, "2", ""), FormLine(2, "3", "") } ]

NextScenario ==
    \/ ClientNew
    \/ Step4Post(ScenarioProfile)
    \/ ClientDetail
    \/ ClientDelete

SpecScenario == Init /\ [][NextScenario]_vars

-----------------------------------------------------------------------------
(* Prices: a line may carry a unit price, and the catalogue page changes   *)
(* the price of a variant or empties it.                                   *)

\* one line of the step-4 form with a unit price
PricedLine(vid, qty, up) ==
    [variant_id |-> vid, qty |-> qty, unit_price_ttc |-> up, deposit_per_keg |-> ""]

PriceProfile ==
    [ types  |-> {"OUT", "FULL"},
      eqs    |-> {NoEquipment},
      lines  |-> { PricedLine(1, "2", ""), PricedLine(1, "2", "1"),
                   PricedLine(4, "1", ""), PricedLine(3, "1", "1") },
      prices |-> { [vid |-> 1, text |-> ""], [vid |-> 1, text |-> "30"] } ]

NextPrice ==
    \/ ClientNew
    \/ Step4Post(PriceProfile)
    \/ CatalogUpdatePrices(PriceProfile)

SpecPrice == Init /\ [][NextPrice]_vars

-----------------------------------------------------------------------------
(* The stock page: counts and reorder thresholds are typed in, and read.   *)

StockProfile ==
    [ stock |-> { [field |-> "qty", vid |-> 1, text |-> "-1"],
                  [field |-> "qty", vid |-> 1, text |-> "2"],
                  [field |-> "qty", vid |-> 2, text |-> ""],
                  [field |-> "qty", vid |-> 4, text |-> "1"],
                  [field |-> "min", vid |-> 1, text |-> "0"],
                  [field |-> "min", vid |-> 1, text |-> "1"],
                  [field |-> "min", vid |-> 1, text |-> "-1"],
                  [field |-> "min", vid |-> 2, text |-> "2"],
                  [field |-> "min", vid |-> 2, text |-> "5"],
                  [field |-> "min", vid |-> 4, text |-> "3"] } ]

NextStock ==
    \/ StockPost(StockProfile)
    \/ StockGet

SpecStock == Init /\ [][NextStock]_vars

-----------------------------------------------------------------------------
(* The aggregators as functions of the content of table Movement: the      *)
(* table holds any rows its columns allow (deposit_per_keg and             *)
(* unit_price_ttc are nullable, qty is not forced to zero on any product), *)
(* and the pages are read.                                                 *)

\* rows in table Movement
MaxRows == 2

RowAlphabet ==
    { [client_id |-> 1, variant_id |-> v, type |-> t, qty |-> 2,
       unit_price_ttc |-> up, deposit_per_keg |-> dep, notes |-> <<>>] :
         v \in Variants, t \in {"OUT", "FULL"},
         up \in {None, Some(2000)}, dep \in {None, Some(500)} }

\* the rows get their primary keys in insertion order
WithIds(rows) ==
    [i \in 1..Len(rows) |->
        [ id |-> i, client_id |-> rows[i].client_id, variant_id |-> rows[i].variant_id,
          type |-> rows[i].type, qty |-> rows[i].qty,
          unit_price_ttc |-> rows[i].unit_price_ttc,
          deposit_per_keg |-> rows[i].deposit_per_keg, notes |-> rows[i].notes ]]

InitRows ==
    /\ clients = ClientIds
    /\ \E n \in 0..MaxRows : \E rows \in [1..n -> RowAlphabet] :
         /\ ledger = WithIds(rows)
         /\ next_id = n + 1
    /\ inventory = <<>>
    /\ last = NoLast
    /\ txn = TxnIdle
    /\ price_ttc = [v \in Variants |-> VariantRows[v].price_ttc]
    /\ reorder = <<>>
    /\ wiz = NoWizard

NextRows == ClientDetail

SpecRows == InitRows /\ [][NextRows]_vars

-----------------------------------------------------------------------------
(* Product names put through every classification of the code.  A name is  *)
(* a head, a middle and a tail; the empty name stands for a missing        *)
(* product or name too.                                                    *)

NameHeads ==
    { <<>>,
      <<"E", "c", "o", "c", "u", "p">>,
      <<"E", "C", "O", " ", "C", "U", "P">>,
      <<"G", "o", "b", "e", "l", "e", "t">>,
      <<"B", "l", "o", "n", "d", "e">> }

NameMiddles ==
    { <<>>,
      <<" ", "l", "a", "v", "a", "g", "e">>,
      <<" ", "P", "E", "R", "D", "U">>,
      <<" ", "p", "e", "r", "t", "e">>,
      <<" ", "W", "a", "s", "h">>,
      <<" ", "c", "l", "e", "a", "n">> }

NameTails ==
    { <<>>,
      <<" ", "m", "a", "t", "é", "r", "i", "e", "l", " ", "s", "e", "u", "l">>,
      <<" ", "M", "A", "T", "E", "R", "I", "E", "L", " ", "S", "E", "U", "L">>,
      <<" ", "M", "A", "T", "É", "R", "I", "E", "L", " ", "S", "E", "U", "L">>,
      <<" ", "s", "e", "u", "l">> }

Names == {h \o m \o t : h \in NameHeads, m \in NameMiddles, t \in NameTails}

InitNames ==
    /\ clients = {}
    /\ ledger = <<>>
    /\ inventory = <<>>
    /\ next_id = 1
    /\ \E name \in Names : last = [NoLast EXCEPT !.op = "name", !.view = Some(name)]
    /\ txn = TxnIdle
    /\ price_ttc = [v \in Variants |-> VariantRows[v].price_ttc]
    /\ reorder = <<>>
    /\ wiz = NoWizard

\* what each place of the code that classifies a product decides on the name
Classify ==
    /\ last.op = "name"
    /\ \E engine \in Engines :
         LET name == last.view[1]
             name_lc == Lower(name)
         IN last' = [last EXCEPT
              !.op = "classify",
              !.view = Some(
                [ name            |-> name,
                  engine          |-> engine,
                  cup_product     |-> _is_cup_product(name),
                  cup_maintenance |-> _is_cup_maintenance(name),
                  equipment_only  |-> _is_equipment_only(name),
                  cup_name        |-> _is_cup_name(name),
                  default_deposit |-> default_deposit_for_product(name),
                  split_equipment |-> _is_equipment_only_name(name_lc),
                  split_cup       |-> _is_cup(name_lc),
                  wizard_equipment |-> _is_equipment_only_name(name),
                  billable        |-> is_billable_name(name, engine) ])]
    /\ UNCHANGED <<clients, ledger, inventory, next_id, txn, price_ttc, reorder, wiz>>

NextNames == Classify

SpecNames == InitNames /\ [][NextNames]_vars

-----------------------------------------------------------------------------
(* Data entry.  The quantity field of a line may hold text that int()      *)
(* refuses or a negative number, and a line on the equipment-only product  *)
(* may come with a quantity, a price and a deposit.                        *)

\* one line of the step-4 form, every field given
EntryLine(vid, qty, up, dep) ==
    [variant_id |-> vid, qty |-> qty, unit_price_ttc |-> up, deposit_per_keg |-> dep]

EntryProfile ==
    [ types |-> MovementTypes,
      eqs   |-> {NoEquipment},
      lines |-> { EntryLine(1, "abc", "", ""), EntryLine(1, "-1", "", ""),
                  EntryLine(1, "2", "", ""), EntryLine(3, "5", "30", "30") } ]

NextEntry ==
    \/ ClientNew
    \/ Step4Post(EntryProfile)

SpecEntry == Init /\ [][NextEntry]_vars

-----------------------------------------------------------------------------
(* Every page that writes: batches, deletions, prices and stock counts.    *)

LedgerProfile ==
    [ types  |-> {"OUT", "IN"},
      eqs    |-> {NoEquipment},
      lines  |-> { PricedLine(1, "2", ""), PricedLine(1, "1", "1") },
      prices |-> { [vid |-> 1, text |-> ""], [vid |-> 1, text |-> "30"] },
      stock  |-> { [field |-> "qty", vid |-> 1, text |-> "3"],
                   [field |-> "min", vid |-> 1, text |-> "5"] } ]

NextLedger ==
    \/ ClientNew
    \/ Step4Post(LedgerProfile)
    \/ MovementDelete
    \/ ClientDelete
    \/ CatalogUpdatePrices(LedgerProfile)
    \/ StockPost(LedgerProfile)
    \/ ClientDetail

SpecLedger == Init /\ [][NextLedger]_vars

-----------------------------------------------------------------------------
(* Returns of kegs in batches of one or two lines on the same variant,     *)
(* after a delivery.                                                       *)

\* movements ever inserted in one run of returns
MaxReturnRows == 3

ReturnProfile ==
    [ types |-> {"OUT", "IN"},
      eqs   |-> {NoEquipment},
      lines |-> { FormLine(1, "1", ""), FormLine(1, "2", ""), FormLine(2, "2", "") } ]

Step4PostReturn == Step4PostUpTo(ReturnProfile, MaxReturnRows)

NextReturn ==
    \/ ClientNew
    \/ Step4PostReturn

SpecReturn == Init /\ [][NextReturn]_vars

-----------------------------------------------------------------------------
(* Step 4 of the wizard, statement by statement.  The handler works in one *)
(* database session: txn.acc holds the tables as the session sees them     *)
(* (rows added, Inventory rows created and changed) and the locals         *)
(* violations / inserted.  Any statement of the try block may raise; the   *)
(* except clause flashes a message and redirects, and the request ends     *)
(* with its session discarded.                                             *)

BatchProfile ==
    [ types |-> {"OUT", "IN", "FULL"},
      eqs   |-> {NoEquipment},
      lines |-> { FormLine(1, "1", ""), FormLine(1, "2", ""), FormLine(2, "1", "") } ]

\* lines 620-661: the form is read, open_map is computed
W4_Begin ==
    /\ txn.pc = "idle"
    /\ next_id <= MaxMovements
    /\ \E client_id2 \in clients, mtype \in BatchProfile.types, n \in 1..MaxLines :
         \E lines \in [1..n -> BatchProfile.lines] :
           txn' = [ pc |-> "step4", client_id |-> client_id2, mtype |-> mtype,
                    notes |-> EquipmentNotes(NoEquipment),
                    open_map |-> IF mtype = "IN"
                                 THEN _open_qty_by_variant(ledger, client_id2)
                                 ELSE <<>>,
                    todo |-> lines,
                    acc |-> [ledger |-> ledger, inventory |-> inventory,
                             next_id |-> next_id, violations |-> <<>>,
                             inserted |-> 0] ]
    /\ UNCHANGED <<clients, ledger, inventory, next_id, last, price_ttc, reorder, wiz>>

\* lines 662-740, one turn of the loop
W4_Line ==
    /\ txn.pc = "step4"
    /\ txn.todo # <<>>
    /\ LET acc2 == step4_lines(<<Head(txn.todo)>>, txn.client_id, txn.mtype,
                               txn.notes, txn.open_map, txn.acc)
       IN /\ acc2.next_id <= MaxMovements + 1
          /\ txn' = [txn EXCEPT !.acc = acc2, !.todo = Tail(@)]
    /\ UNCHANGED <<clients, ledger, inventory, next_id, last, price_ttc, reorder, wiz>>

\* lines 742-755: the commit when a line was inserted, and the redirect
W4_End ==
    /\ txn.pc = "step4"
    /\ txn.todo = <<>>
    /\ IF txn.acc.inserted > 0
       THEN /\ ledger' = txn.acc.ledger
            /\ inventory' = txn.acc.inventory
            /\ next_id' = txn.acc.next_id
       ELSE UNCHANGED <<ledger, inventory, next_id>>
    /\ last' = [NoLast EXCEPT
                  !.op = "step4", !.client_id = txn.client_id,
                  !.mtype = txn.mtype, !.violations = txn.acc.violations,
                  !.inserted = txn.acc.inserted,
                  !.inv0 = Some(StockOf(inventory))]
    /\ txn' = TxnIdle
    /\ UNCHANGED <<clients, price_ttc, reorder, wiz>>

\* lines 757-761: a statement of the try block raised
W4_Fail ==
    /\ txn.pc = "step4"
    /\ LET t == on_failure([ledger |-> ledger, inventory |-> inventory],
                           [ledger |-> txn.acc.ledger, inventory |-> txn.acc.inventory])
       IN /\ ledger' = t.ledger
          /\ inventory' = t.inventory
    /\ last' = [NoLast EXCEPT !.op = "step4_failed", !.client_id = txn.client_id,
                              !.mtype = txn.mtype, !.done = txn.acc.inserted]
    /\ txn' = TxnIdle
    /\ UNCHANGED <<clients, next_id, price_ttc, reorder, wiz>>

NextBatch ==
    \/ ClientNew
    \/ W4_Begin
    \/ W4_Line
    \/ W4_End
    \/ W4_Fail

SpecBatch == Init /\ [][NextBatch]_vars

-----------------------------------------------------------------------------
(* Two requests at the same time (two workers or threads), each in its own *)
(* database session.  A handler loads the Inventory row, computes the new  *)
(* qty in Python (inv.qty = (inv.qty or 0) - qty_int) and the commit       *)
(* writes that value: UPDATE inventory SET qty = <value>.  No handler      *)
(* locks the row (no with_for_update) and none lets the database compute   *)
(* qty = qty - n.  The runs explored start such requests on variants       *)
(* whose Inventory row exists, one movement per request.                   *)

Sessions == {1, 2}

RaceProfile ==
    [ types |-> {"OUT", "FULL"},
      eqs   |-> {NoEquipment},
      lines |-> { FormLine(1, "1", ""), FormLine(1, "2", "") },
      stock |-> { [field |-> "qty", vid |-> 1, text |-> "3"] } ]

\* the sessions open, and what was committed since the first of them began
OpenSessions ==
    IF txn.pc = "concurrent" THEN txn
    ELSE [ pc |-> "concurrent", inv0 |-> StockOf(inventory), committed |-> <<>>,
           sess |-> [s \in Sessions |-> None] ]

\* the wizard sessions open, each with one row to insert
PendingInserts(t) == Cardinality({s \in Sessions : t.sess[s] # None /\ t.sess[s][1].kind = "step4"})

\* movement_wizard step 4 up to the commit (lines 620-740), one line:
\* the row is added to the session and inv.qty is computed from the row read
R_BeginStep4(s) ==
    /\ txn.pc \in {"idle", "concurrent"}
    /\ OpenSessions.sess[s] = None
    /\ next_id + PendingInserts(OpenSessions) <= MaxMovements
    /\ \E client_id2 \in clients, mtype \in RaceProfile.types, ln \in RaceProfile.lines :
         LET r == step4_post(ledger, inventory, next_id, client_id2, mtype,
                             <<ln>>, NoEquipment)
         IN /\ ln.variant_id \in DOMAIN inventory
            /\ r.inserted = 1
            /\ txn' = [OpenSessions EXCEPT !.sess[s] =
                         Some([ kind |-> "step4",
                                mv |-> r.ledger[Len(r.ledger)],
                                qty_written |-> r.inventory[ln.variant_id] ])]
    /\ UNCHANGED <<clients, ledger, inventory, next_id, last, price_ttc, reorder, wiz>>

\* movement_delete up to the commit (lines 796-805)
R_BeginDelete(s) ==
    /\ txn.pc \in {"idle", "concurrent"}
    /\ OpenSessions.sess[s] = None
    /\ \E i \in 1..Len(ledger) :
         LET m == ledger[i] IN
         /\ m.variant_id \in DOMAIN inventory
         /\ txn' = [OpenSessions EXCEPT !.sess[s] =
                      Some([ kind |-> "movement_delete",
                             mv |-> m,
                             qty_written |-> reverse_inventory(inventory, m)[m.variant_id] ])]
    /\ UNCHANGED <<clients, ledger, inventory, next_id, last, price_ttc, reorder, wiz>>

\* db.session.commit() of the session (app.py line 749 or 807): the INSERT
\* or DELETE of the movement and the UPDATE of the Inventory row; a DELETE
\* that finds its row gone raises and nothing is written
R_Commit(s) ==
    /\ txn.pc = "concurrent"
    /\ txn.sess[s] # None
    /\ LET q == txn.sess[s][1]
           vid == q.mv.variant_id
           gone == q.kind = "movement_delete" /\ \A i \in 1..Len(ledger) : ledger[i].id # q.mv.id
           keep(x) == x.id # q.mv.id
           row == [q.mv EXCEPT !.id = next_id]
           committed2 == IF gone THEN txn.committed
                         ELSE Append(txn.committed,
                                     [kind |-> q.kind,
                                      mv |-> IF q.kind = "step4" THEN row ELSE q.mv])
           sess2 == [txn.sess EXCEPT ![s] = None]
       IN /\ IF gone
             THEN UNCHANGED <<ledger, inventory, next_id>>
             ELSE /\ inventory' = [inventory EXCEPT ![vid] = q.qty_written]
                  /\ IF q.kind = "step4"
                     THEN ledger' = Append(ledger, row) /\ next_id' = next_id + 1
                     ELSE ledger' = SelectSeq(ledger, keep) /\ UNCHANGED next_id
          /\ IF \A t \in Sessions : sess2[t] = None
             THEN /\ txn' = TxnIdle
                  /\ last' = [NoLast EXCEPT !.op = "concurrent",
                                            !.inv0 = Some(txn.inv0),
                                            !.view = Some(committed2)]
             ELSE /\ txn' = [txn EXCEPT !.sess = sess2, !.committed = committed2]
                  /\ UNCHANGED last
    /\ UNCHANGED <<clients, price_ttc, reorder, wiz>>

NextRace ==
    \/ ClientNew
    \/ StockPost(RaceProfile)
    \/ \E s \in Sessions : R_BeginStep4(s)
    \/ \E s \in Sessions : R_BeginDelete(s)
    \/ \E s \in Sessions : R_Commit(s)

SpecRace == Init /\ [][NextRace]_vars

-----------------------------------------------------------------------------
(* Two return batches at the same time, each in its own database session.  *)
(* Step 4 reads open_map once (line 659), checks its line against it       *)
(* (lines 715-717) and adds the row; the commit (line 749) inserts it.     *)
(* Nothing under src/ locks the client's movements between the read and    *)
(* the commit.  One line per request; a return changes no Inventory.qty,   *)
(* so the commit writes no counter.                                        *)

\* movement_wizard step 4, type IN, up to the commit (lines 620-740)
R_BeginReturn(s) ==
    /\ txn.pc \in {"idle", "concurrent"}
    /\ OpenSessions.sess[s] = None
    /\ next_id + PendingInserts(OpenSessions) <= MaxReturnRows
    /\ \E client_id2 \in clients, ln \in ReturnProfile.lines :
         LET r == step4_post(ledger, inventory, next_id, client_id2, "IN",
                             <<ln>>, NoEquipment)
         IN /\ r.inserted = 1
            /\ txn' = [OpenSessions EXCEPT !.sess[s] =
                         Some([ kind |-> "step4",
                                mv |-> r.ledger[Len(r.ledger)] ])]
    /\ UNCHANGED <<clients, ledger, inventory, next_id, last, price_ttc, reorder, wiz>>

\* db.session.commit() of a return (line 749): the INSERT of the movement,
\* and of the Inventory row get_or_create_inventory made if there was none
R_CommitReturn(s) ==
    /\ txn.pc = "concurrent"
    /\ txn.sess[s] # None
    /\ LET q == txn.sess[s][1]
           row == [q.mv EXCEPT !.id = next_id]
           committed2 == Append(txn.committed, [kind |-> q.kind, mv |-> row])
           sess2 == [txn.sess EXCEPT ![s] = None]
       IN /\ ledger' = Append(ledger, row)
          /\ next_id' = next_id + 1
          /\ inventory' = get_or_create_inventory(inventory, q.mv.variant_id)
          /\ IF \A t \in Sessions : sess2[t] = None
             THEN /\ txn' = TxnIdle
                  /\ last' = [NoLast EXCEPT !.op = "concurrent",
                                            !.inv0 = Some(txn.inv0),
                                            !.view = Some(committed2)]
             ELSE /\ txn' = [txn EXCEPT !.sess = sess2, !.committed = committed2]
                  /\ UNCHANGED last
    /\ UNCHANGED <<clients, price_ttc, reorder, wiz>>

NextReturnRace ==
    \/ ClientNew
    \/ Step4PostReturn
    \/ \E s \in Sessions : R_BeginReturn(s)
    \/ \E s \in Sessions : R_CommitReturn(s)

SpecReturnRace == Init /\ [][NextReturnRace]_vars

-----------------------------------------------------------------------------
(* The wizard across requests.  Step 1 stores the client and the type in   *)
(* the browser's session cookie; step 4 records for int(wiz["client_id"])  *)
(* (line 653) without loading the client.  client_delete takes the client  *)
(* out of the cookie of the browser that deletes, the cookies of the       *)
(* other browsers keep it.                                                 *)

\* whether the database checks Movement.client_id against table Client on
\* INSERT: SQLite does not unless PRAGMA foreign_keys is set on the
\* connection, which nothing under src/ does; PostgreSQL does when the
\* column is declared a foreign key
ForeignKeys(engine) == IF engine = "sqlite" THEN {FALSE} ELSE {TRUE, FALSE}

WizardProfile ==
    [ types |-> {"OUT", "IN"},
      eqs   |-> {NoEquipment},
      lines |-> { FormLine(1, "1", ""), FormLine(1, "2", "") } ]

\* movement_wizard, step 1, POST from browser b: a client of the list
\* (unless the cookie already has one) and a type
WizardStep1(b, P) ==
    /\ txn.pc = "idle"
    /\ \E c \in clients, t \in P.types :
         wiz' = [wiz EXCEPT ![b] =
                   [ client_id |-> IF wiz[b].client_id # None
                                   THEN wiz[b].client_id ELSE Some(c),
                     type |-> Some(t) ]]
    /\ last' = [NoLast EXCEPT !.op = "step1"]
    /\ UNCHANGED <<clients, ledger, inventory, next_id, txn, price_ttc, reorder>>

\* movement_wizard, step 4, POST from browser b: the batch is recorded for
\* the client and the type of the cookie; an INSERT the database refuses
\* raises inside the try block and nothing is committed
WizardStep4(b, P, max_rows) ==
    /\ txn.pc = "idle"
    /\ next_id <= max_rows
    /\ IF wiz[b].client_id = None \/ wiz[b].type = None
       THEN /\ last' = [NoLast EXCEPT !.op = "step4_incomplete"]
            /\ UNCHANGED <<ledger, inventory, next_id, wiz>>
       ELSE \E engine \in Engines : \E fk \in ForeignKeys(engine) :
            \E eq \in P.eqs, n \in 1..MaxLines : \E lines \in [1..n -> P.lines] :
              LET client_id2 == wiz[b].client_id[1]
                  mtype == wiz[b].type[1]
                  r == step4_post(ledger, inventory, next_id, client_id2, mtype, lines, eq)
                  refused == fk /\ client_id2 \notin clients /\ r.inserted > 0
              IN /\ r.next_id <= max_rows + 1
                 /\ IF refused
                    THEN /\ UNCHANGED <<ledger, inventory, next_id, wiz>>
                         /\ last' = [NoLast EXCEPT !.op = "step4_failed",
                                                   !.client_id = client_id2,
                                                   !.mtype = mtype]
                    ELSE /\ IF r.inserted > 0
                            THEN /\ ledger' = r.ledger
                                 /\ inventory' = r.inventory
                                 /\ next_id' = r.next_id
                            ELSE UNCHANGED <<ledger, inventory, next_id>>
                         /\ wiz' = [wiz EXCEPT ![b] = EmptyWiz]
                         /\ last' = [NoLast EXCEPT
                                       !.op = "step4", !.client_id = client_id2,
                                       !.mtype = mtype, !.violations = r.violations,
                                       !.inserted = r.inserted,
                                       !.inv0 = Some(StockOf(inventory))]
    /\ UNCHANGED <<clients, txn, price_ttc, reorder>>

NextWizard ==
    \/ ClientNew
    \/ \E b \in Browsers : WizardStep1(b, WizardProfile)
    \/ \E b \in Browsers : WizardStep4(b, WizardProfile, MaxMovements)
    \/ ClientDelete

SpecWizard == Init /\ [][NextWizard]_vars

-----------------------------------------------------------------------------
(* Deliveries and returns whose deposit is entered on some lines and left  *)
(* to the default on others, and the deletion of the client afterwards.    *)

\* movements ever inserted in one run of deposit overrides
MaxOverrideRows == 4

OverrideProfile ==
    [ types |-> {"OUT", "IN"},
      eqs   |-> {NoEquipment},
      lines |-> { FormLine(1, "1", ""), FormLine(1, "1", "1"), FormLine(2, "1", "") } ]

Step4PostOverride == Step4PostUpTo(OverrideProfile, MaxOverrideRows)

NextOverride ==
    \/ ClientNew
    \/ Step4PostOverride
    \/ ClientDelete

SpecOverride == Init /\ [][NextOverride]_vars







-----------------------------------------------------------------------------
(* Vocabulary of the properties *)

\* the sum of qty over the rows of L, taken as a set of positions, that are
\* of client c, variant v and of a type in types
RECURSIVE QtyOver(_, _)
QtyOver(L, S) ==
    IF S = {} THEN 0
    ELSE LET i == CHOOSE x \in S : TRUE IN L[i].qty + QtyOver(L, S \ {i})

Rows(L, c, v, types) ==
    { i \in 1..Len(L) : L[i].client_id = c /\ L[i].variant_id = v /\ L[i].type \in types }

QtyOf(L, c, v, types) == QtyOver(L, Rows(L, c, v, types))

AllClients(L) == {L[i].client_id : i \in 1..Len(L)}

\* the open quantity of client c for variant v, as every caller reads the map
OpenQty(L, c, v) == Get(_open_qty_by_variant(L, c), v, 0)

\* every order in which the rows of L can have been appended
Reorderings(L) ==
    LET n == Len(L)
        bij == { p \in [1..n -> 1..n] : \A i, j \in 1..n : p[i] = p[j] => i = j }
    IN { [i \in 1..n |-> L[p[i]]] : p \in bij }

\* the rows step 4 or a deletion changed:  those appended to L1 to give L2
Appended(L1, L2) == SubSeq(L2, Len(L1) + 1, Len(L2))

\* the change of Inventory.qty that recording movement m stands for
StockDelta(m) ==
    IF m.type = "OUT" THEN -m.qty ELSE IF m.type = "FULL" THEN m.qty ELSE 0

RECURSIVE SumOver(_, _)
SumOver(f, S) ==
    IF S = {} THEN 0
    ELSE LET i == CHOOSE x \in S : TRUE IN f[i] + SumOver(f, S \ {i})

\* the total of StockDelta over the rows of L on variant v
StockDeltaOf(L, v) ==
    SumOver([i \in 1..Len(L) |-> StockDelta(L[i])],
            {i \in 1..Len(L) : L[i].variant_id = v})

-----------------------------------------------------------------------------
(* C1: for every client C and variant V the open quantity returned by      *)
(* _open_qty_by_variant(C)[V] is the sum of qty of C's OUT movements on V  *)
(* minus the sum of qty of C's IN, DEFECT and FULL movements on V, and is  *)
(* the same for every order of the same rows.                              *)
C1_OpenQuantity ==
    \A c \in ClientIds, v \in Variants :
        /\ OpenQty(ledger, c, v)
             = QtyOf(ledger, c, v, {"OUT"}) - QtyOf(ledger, c, v, {"IN", "DEFECT", "FULL"})
        /\ v \in DOMAIN _open_qty_by_variant(ledger, c)
             <=> Rows(ledger, c, v, {"OUT", "IN", "DEFECT", "FULL"}) # {}
        /\ \A L \in Reorderings(ledger) :
             _open_qty_by_variant(L, c) = _open_qty_by_variant(ledger, c)

\* a client holds a delivery and a restocking row on one variant, and they
\* do not cancel
C1_Witness ==
    \E c \in ClientIds, v \in Variants :
        /\ QtyOf(ledger, c, v, {"OUT"}) > 0
        /\ QtyOf(ledger, c, v, {"FULL"}) > 0
        /\ OpenQty(ledger, c, v) # 0

(* C2: in a batch of type IN, a line on a non-equipment variant whose qty  *)
(* exceeds the client's open balance for that variant, or whose open       *)
(* balance is <= 0, is refused: every movement the batch appends on such a *)
(* variant has 0 < open balance and qty <= open balance (the balance as it *)
(* was when the batch was submitted), each refusal reports that balance,   *)
(* and the open quantity goes down by the accepted quantities only.        *)
C2_ReturnRefused ==
    [][ (last'.op = "step4" /\ last'.mtype = "IN") =>
          LET c == last'.client_id
              new == Appended(ledger, ledger')
          IN /\ ledger' = ledger \o new
             /\ Len(new) = last'.inserted
             /\ \A i \in 1..Len(new) :
                  /\ new[i].client_id = c
                  /\ new[i].type = "IN"
                  /\ ~IsEquipmentOnlyVariant[new[i].variant_id] =>
                       /\ OpenQty(ledger, c, new[i].variant_id) > 0
                       /\ new[i].qty <= OpenQty(ledger, c, new[i].variant_id)
             /\ \A i \in 1..Len(last'.violations) :
                  LET w == last'.violations[i] IN
                  /\ ~IsEquipmentOnlyVariant[w.variant_id]
                  /\ w.open_q = OpenQty(ledger, c, w.variant_id)
             /\ \A v \in Variants :
                  OpenQty(ledger', c, v)
                    = OpenQty(ledger, c, v) - QtyOf(new, c, v, {"IN"})
      ]_vars

\* an IN batch was submitted with a line above a positive open balance
C2_Witness ==
    /\ last.op = "step4"
    /\ last.mtype = "IN"
    /\ \E i \in 1..Len(last.violations) : last.violations[i].open_q > 0

(* C3: a batch is all-or-nothing: if return validation refuses at least    *)
(* one line of a batch, no line of the batch is appended and no Inventory  *)
(* counter changes.                                                        *)
C3_AllOrNothing ==
    [][ (last'.op = "step4" /\ last'.violations # <<>>) =>
          /\ ledger' = ledger
          /\ StockOf(inventory') = StockOf(inventory) ]_vars

(* C4: in every reachable state the open quantity of every client for      *)
(* every variant is >= 0.                                                  *)
C4_OpenQtyNonNegative ==
    \A c \in ClientIds, v \in Variants : OpenQty(ledger, c, v) >= 0

(* C5: recording a movement and then deleting that movement, with no other *)
(* operation on its variant in between, leaves Inventory.qty of the        *)
(* variant equal to its value before the movement was recorded.            *)
C5_RoundTrip ==
    (last.op = "movement_delete" /\ last.round_trip # None) =>
        InvQty(inventory, last.round_trip[1].variant_id) = last.round_trip[1].inv_qty

\* a delivery or a restocking of at least one unit was recorded and deleted
C5_Witness ==
    /\ last.op = "movement_delete"
    /\ last.round_trip # None
    /\ last.round_trip[1].qty > 0
    /\ last.round_trip[1].type = "FULL"

(* C6: recording a movement of qty q on variant V changes Inventory.qty of *)
(* V by -q for OUT, +q for FULL and 0 for IN and DEFECT; deleting a        *)
(* movement applies the inverse; the counters of the other variants do not *)
(* change.                                                                 *)
C6_StockEffect ==
    [][ /\ last'.op = "step4" =>
             \A v \in Variants :
                InvQty(inventory', v)
                  = InvQty(inventory, v) + StockDeltaOf(Appended(ledger, ledger'), v)
        /\ last'.op = "movement_delete" =>
             \A i \in 1..Len(ledger) :
                (\A j \in 1..Len(ledger') : ledger'[j].id # ledger[i].id) =>
                   \A v \in Variants :
                      InvQty(inventory', v)
                        = InvQty(inventory, v)
                            - (IF v = ledger[i].variant_id
                               THEN StockDelta(ledger[i]) ELSE 0)
      ]_vars

\* a restocking of at least one unit has just been recorded
C6_Witness ==
    /\ last.op = "step4"
    /\ last.mtype = "FULL"
    /\ last.inserted > 0
    /\ ledger[Len(ledger)].qty > 0

(* C8: after a successful client_delete of client C no movement of C is    *)
(* left, C no longer exists, and for every variant V Inventory.qty(V) is   *)
(* its value before plus the qty of C's OUT movements on V minus the qty   *)
(* of C's FULL movements on V; the rows of the other clients stay.         *)
C8_ClientDeleteEffect ==
    [][ (last'.op = "client_delete" /\ ~last'.blocked) =>
          LET c == last'.client_id
              others(m) == m.client_id # c
          IN /\ c \in clients
             /\ clients' = clients \ {c}
             /\ ledger' = SelectSeq(ledger, others)
             /\ \A v \in Variants :
                  InvQty(inventory', v)
                    = InvQty(inventory, v) + QtyOf(ledger, c, v, {"OUT"})
                                           - QtyOf(ledger, c, v, {"FULL"})
      ]_vars

\* a client was deleted whose movements had moved the stock
C8_Witness ==
    /\ last.op = "client_delete"
    /\ ~last.blocked
    /\ \E v \in Variants : InvQty(inventory, v) # last.inv0[1][v]

\* the deposit per unit of row m: the one of the line, else the default of
\* its category
LineDeposit(m) ==
    IF m.deposit_per_keg # None THEN m.deposit_per_keg[1]
    ELSE IF IsCupVariant[m.variant_id] THEN CupDeposit ELSE KegDeposit

\* sign * deposit * qty of row m
SignedDeposit(m) ==
    LET sign == IF m.type = "OUT" THEN 1
                ELSE IF m.type \in {"IN", "DEFECT", "FULL"} THEN -1
                ELSE 0
    IN sign * LineDeposit(m) * m.qty

\* the rows of client c on products that are not equipment-only
DepositRows(L, c) ==
    { i \in 1..Len(L) : L[i].client_id = c /\ ~IsEquipmentOnlyVariant[L[i].variant_id] }

\* the signed sum over the rows of c on cups (cup = TRUE) or on the rest
SignedSum(L, c, cup) ==
    SumOver([i \in 1..Len(L) |-> SignedDeposit(L[i])],
            {i \in DepositRows(L, c) : IsCupVariant[L[i].variant_id] = cup})

\* the parts of s between the occurrences of sep
RECURSIVE SplitOn(_, _)
SplitOn(s, sep) ==
    LET at == {i \in 1..Len(s) : s[i] = sep} IN
    IF at = {} THEN <<s>>
    ELSE LET i == CHOOSE x \in at : \A y \in at : x <= y
         IN <<SubSeq(s, 1, i - 1)>> \o SplitOn(SubSeq(s, i + 1, Len(s)), sep)

\* the value of a sequence of decimal digits
RECURSIVE DigitsValue(_)
DigitsValue(d) ==
    IF d = <<>> THEN 0
    ELSE 10 * DigitsValue(SubSeq(d, 1, Len(d) - 1))
           + (CHOOSE n \in 0..9 : DigitChar[n + 1] = d[Len(d)])

IsDigits(d) ==
    d # <<>> /\ \A i \in 1..Len(d) : \E n \in 1..10 : DigitChar[n] = d[i]

\* the count a  key=integer  pair encodes for key k; 0 for a malformed pair
\* or one on another key
PairCount(pair, k) ==
    LET kv == SplitOn(pair, "=") IN
    IF Len(kv) = 2 /\ Lower(kv[1]) = KeyChars[k]
    THEN IF IsDigits(kv[2]) THEN DigitsValue(kv[2])
         ELSE IF kv[2] # <<>> /\ kv[2][1] = "-" /\ IsDigits(Tail(kv[2]))
              THEN 0 - DigitsValue(Tail(kv[2]))
              ELSE 0
    ELSE 0

\* the count the  key=integer;key=integer  text of notes encodes for key k
ParsedCount(notes, k) ==
    LET pairs == SplitOn(notes, ";") IN
    SumOver([j \in 1..Len(pairs) |-> PairCount(pairs[j], k)], 1..Len(pairs))

\* the net count of equipment key k the notes of c's rows encode
EquipmentNet(L, c, k) ==
    LET sign(m) == IF m.type = "OUT" THEN 1
                   ELSE IF m.type \in {"IN", "DEFECT", "FULL"} THEN -1
                   ELSE 0
    IN SumOver([i \in 1..Len(L) |-> sign(L[i]) * ParsedCount(L[i].notes, k)],
               {i \in 1..Len(L) : L[i].client_id = c})

\* the total of equipment in play at c
EquipmentTotal(L, c) ==
    LET keys == {"tireuse", "co2", "comptoir", "tonnelle"} IN
    SumOver([k \in keys |-> Max(0, EquipmentNet(L, c, k))], keys)

\* the sum of the positive open quantities of c
PositiveOpenTotal(L, c) ==
    SumOver([v \in Variants |-> Max(0, OpenQty(L, c, v))], Variants)

(* C7: client_delete refuses (clients, movements and stock unchanged) if   *)
(* and only if the sum of the client's positive open quantities is > 0,    *)
(* or the absolute value of its cup + keg deposit total is > 0.01, or the  *)
(* total of equipment in play its notes encode is > 0.                     *)
C7_DeleteGuard ==
    [][ last'.op = "client_delete" =>
          LET c == last'.client_id
              d == compute_deposits_split(ledger, c)
          IN /\ last'.blocked <=>
                  \/ PositiveOpenTotal(ledger, c) > 0
                  \/ Abs(d.cup_eur + d.keg_eur) > eps_eur
                  \/ EquipmentTotal(ledger, c) > 0
             /\ last'.blocked => UNCHANGED <<clients, ledger, inventory>>
      ]_vars

(* C9: client deletion is atomic: while a client_delete is running, and    *)
(* when it fails part-way, every step either leaves clients, movements and *)
(* stock as they were, or deletes the client and all its movements and     *)
(* applies all their stock reversals at once.                              *)
C9_DeleteAtomic ==
    [][ txn.pc # "idle" =>
          LET c == txn.client_id
              others(m) == m.client_id # c
          IN \/ UNCHANGED <<clients, ledger, inventory>>
             \/ /\ clients' = clients \ {c}
                /\ ledger' = SelectSeq(ledger, others)
                /\ \A v \in Variants :
                     InvQty(inventory', v)
                       = InvQty(inventory, v) - StockDeltaOf(MovementsOf(ledger, c), v)
      ]_vars

\* a client_delete has failed after its loop had reversed and deleted a
\* movement that moved the stock, and the movement is still there
C9_Witness ==
    /\ last.op = "client_delete_failed"
    /\ last.done > 0
    /\ \E i \in 1..Len(ledger) :
         /\ ledger[i].client_id = last.client_id
         /\ StockDelta(ledger[i]) # 0

(* C10: for every client the cup total and the keg total returned by       *)
(* compute_deposits_split are the signed sums sign*deposit*qty of the      *)
(* client's cup rows and of its other non-equipment rows (+1 OUT, -1       *)
(* IN/DEFECT/FULL, other types skipped), each rounded to the nearest cent: *)
(* their sum is the signed sum of all rows when every deposit is in whole  *)
(* cents, within 0.01 of it otherwise, is not clamped, and is negative     *)
(* when the signed sum is below -0.01.                                     *)
C10_DepositTotal ==
    \A c \in ClientIds :
        LET d == compute_deposits_split(ledger, c)
            cup == SignedSum(ledger, c, TRUE)
            keg == SignedSum(ledger, c, FALSE)
            whole == \A i \in DepositRows(ledger, c) : LineDeposit(ledger[i]) % 10 = 0
        IN /\ d.cup_eur % 10 = 0 /\ 2 * Abs(d.cup_eur - cup) <= 10
           /\ d.keg_eur % 10 = 0 /\ 2 * Abs(d.keg_eur - keg) <= 10
           /\ whole => d.cup_eur + d.keg_eur = cup + keg
           /\ Abs(d.cup_eur + d.keg_eur - (cup + keg)) <= 10
           /\ cup + keg < -10 => d.cup_eur + d.keg_eur < 0

\* a client has returned more deposit than it was delivered, and has a row
\* of another type that the sum skips
C10_Witness ==
    \E c \in ClientIds :
        /\ SignedSum(ledger, c, TRUE) + SignedSum(ledger, c, FALSE) < 0
        /\ compute_deposits_split(ledger, c).keg_eur < 0
        /\ \E i \in DepositRows(ledger, c) :
             ledger[i].type = "AUTRE" /\ ledger[i].qty > 0

(* C10 as stated: the cup total plus the keg total equals the signed sum   *)
(* of sign*deposit*qty over the client's non-equipment rows, and is        *)
(* negative when that sum is negative.                                     *)
C10_ExactSum ==
    \A c \in ClientIds :
        LET d == compute_deposits_split(ledger, c)
            total == SignedSum(ledger, c, TRUE) + SignedSum(ledger, c, FALSE)
        IN /\ d.cup_eur + d.keg_eur = total
           /\ total < 0 => d.cup_eur + d.keg_eur < 0

\* the category of each variant: Blonde 30 L, Ecocup, Matériel seul,
\* Ecocup lavage, Matériel seul 20 L
Category ==
    <<"STANDARD_UNIT", "REUSABLE_CUP", "EQUIPMENT_ONLY", "MAINTENANCE_CUP",
      "EQUIPMENT_ONLY">>

\* the sign of a movement type in the deposit and equipment balances
BalanceSign(t) ==
    IF t = "OUT" THEN 1 ELSE IF t \in {"IN", "DEFECT", "FULL"} THEN -1 ELSE 0

\* the rows of client c on the variants of the categories cats
RowsIn(L, c, cats) ==
    {i \in 1..Len(L) : L[i].client_id = c /\ Category[L[i].variant_id] \in cats}

Shape(L, c) ==
    LET rows == MovementsOf(L, c) IN
    [i \in 1..Len(rows) |-> <<rows[i].variant_id, rows[i].type, rows[i].qty>>]

(* C12: a client whose only movement, recorded by the wizard, is an OUT of *)
(* 5 units of the keg variant (30 L, price 100, deposit 30) has open       *)
(* quantity 5, keg deposit 150, billed amount 500 and 150 liters; once an  *)
(* IN of 3 units of the variant is recorded after it, open quantity is 2   *)
(* and keg deposit 60, billed amount and liters still 500 and 150.         *)
C12_KegScenario ==
    \A c \in ClientIds :
        LET d == compute_deposits_split(ledger, c)
            b == _beer_totals_for_client(ledger, c)
            view == summarize_client_detail(ledger, c)
        IN /\ Shape(ledger, c) = << <<1, "OUT", 5>> >> =>
                /\ OpenQty(ledger, c, 1) = 5
                /\ d.keg_eur = 150000 /\ d.keg_qty = 5
                /\ b.beer_eur = 500000 /\ b.liters_out = 150
                /\ view.beer_eur = 500000 /\ view.liters_out_cum = 150
                /\ view.deposit_keg_eur = 150000
           /\ Shape(ledger, c) = << <<1, "OUT", 5>>, <<1, "IN", 3>> >> =>
                /\ OpenQty(ledger, c, 1) = 2
                /\ d.keg_eur = 60000 /\ d.keg_qty = 2
                /\ b.beer_eur = 500000 /\ b.liters_out = 150
                /\ view.beer_eur = 500000 /\ view.liters_out_cum = 150
                /\ view.deposit_keg_eur = 60000

\* the IN of 3 after the OUT of 5 has just been accepted
C12_Witness ==
    /\ last.op = "step4"
    /\ last.mtype = "IN"
    /\ last.violations = <<>>
    /\ last.inserted = 1
    /\ Shape(ledger, last.client_id) = << <<1, "OUT", 5>>, <<1, "IN", 3>> >>

(* C13: for every n >= 1, once a client with an empty ledger has recorded  *)
(* an OUT of n units of the cup variant with no deposit entered and then   *)
(* an IN of the same n units, the net cup quantity is 0, the cup deposit   *)
(* total is 0.00 and client_delete is not refused for that client, while   *)
(* it was refused after the OUT alone.                                     *)
C13_CupScenario ==
    [][ \A c \in ClientIds :
          LET outs == {<< <<2, "OUT", n>> >> : n \in 1..5}
              both == {<< <<2, "OUT", n>>, <<2, "IN", n>> >> : n \in 1..5}
              d == compute_deposits_split(ledger', c)
          IN /\ Shape(ledger', c) \in outs => delete_guard(ledger', c).blocked
             /\ Shape(ledger', c) \in both =>
                  /\ d.cup_qty = 0
                  /\ d.cup_eur = 0
                  /\ ~delete_guard(ledger', c).blocked
             /\ (Shape(ledger, c) \in both /\ last'.op = "client_delete"
                                          /\ last'.client_id = c) =>
                  /\ ~last'.blocked
                  /\ c \notin clients'
             /\ (Shape(ledger, c) \in outs /\ last'.op = "client_delete"
                                          /\ last'.client_id = c) =>
                  /\ last'.blocked
                  /\ c \in clients'
      ]_vars

\* a client that took 2 cups and gave them back has just been deleted
C13_Witness ==
    /\ last.op = "client_delete"
    /\ ~last.blocked
    /\ last.inv0 # None
    /\ last.inv0[1][2] = -2
    /\ InvQty(inventory, 2) = 0

\* the OUT rows of client c on billable products
BilledRows(L, c) ==
    {i \in RowsIn(L, c, {"STANDARD_UNIT", "REUSABLE_CUP"}) : L[i].type = "OUT"}

\* the unit price step 4 is to store for a line: the one entered, else the
\* price of the variant when the line is recorded, else none
PriceToStore(line) ==
    IF Category[line.variant_id] = "EQUIPMENT_ONLY" THEN Some(0)
    ELSE IF line.unit_price_ttc \in DOMAIN FloatLiterals
    THEN Some(FloatLiterals[line.unit_price_ttc])
    ELSE price_ttc[line.variant_id]

(* C14: for every client the billed amount of the revenue aggregator is    *)
(* the sum over the client's OUT movements on billable products of qty     *)
(* times the unit price stored on the movement, zero when none is stored,  *)
(* and the liters total the sum over the same movements of qty * size_l;   *)
(* the unit price step 4 stores on a movement is the one entered on the    *)
(* line, else the variant's price_ttc at the time of recording, else none. *)
C14_BilledAmount ==
    [][ /\ \A c \in ClientIds :
             LET b == _beer_totals_for_client(ledger', c)
                 S == BilledRows(ledger', c)
                 n == Len(ledger')
             IN /\ b.beer_eur =
                     SumOver([i \in 1..n |->
                                ledger'[i].qty
                                  * (IF ledger'[i].unit_price_ttc = None THEN 0
                                     ELSE ledger'[i].unit_price_ttc[1])], S)
                /\ b.liters_out =
                     SumOver([i \in 1..n |->
                                ledger'[i].qty * VariantRows[ledger'[i].variant_id].size_l], S)
        /\ last'.op = "step4" =>
             LET new == Appended(ledger, ledger') IN
             /\ ledger' = ledger \o new
             /\ \E lines \in [1..Len(new) -> PriceProfile.lines] :
                  \A i \in 1..Len(new) :
                     /\ new[i].variant_id = lines[i].variant_id
                     /\ new[i].unit_price_ttc = PriceToStore(lines[i])
      ]_vars

\* a client was delivered kegs at an entered price that is not the price of
\* the catalogue, and kegs while the catalogue had no price
C14_Witness ==
    \E c \in ClientIds : \E i, j \in BilledRows(ledger, c) :
        /\ ledger[i].unit_price_ttc = Some(1000)
        /\ ledger[j].unit_price_ttc = None
        /\ price_ttc[1] = Some(30000)
        /\ _beer_totals_for_client(ledger, c).beer_eur = 2000

(* C14 as stated: the billed amount is the sum over the client's OUT       *)
(* movements on billable products of qty times the movement's unit price   *)
(* when it has one, else the variant's price_ttc, else zero.               *)
C14_EffectivePrice ==
    \A c \in ClientIds :
        LET effective(m) == IF m.unit_price_ttc # None THEN m.unit_price_ttc[1]
                            ELSE IF price_ttc[m.variant_id] # None
                            THEN price_ttc[m.variant_id][1]
                            ELSE 0
        IN _beer_totals_for_client(ledger, c).beer_eur
             = SumOver([i \in 1..Len(ledger) |-> ledger[i].qty * effective(ledger[i])],
                       BilledRows(ledger, c))

(* C15: recording a batch of type IN, DEFECT or FULL, and deleting a        *)
(* movement of one of these types, leave the liters delivered and the      *)
(* billed amount of every client as they were.                             *)
C15_ReturnsKeepRevenue ==
    [][ LET same == \A c \in ClientIds :
                       _beer_totals_for_client(ledger', c)
                         = _beer_totals_for_client(ledger, c)
            gone == {i \in 1..Len(ledger) :
                        \A j \in 1..Len(ledger') : ledger'[j].id # ledger[i].id}
        IN /\ (last'.op = "step4" /\ last'.mtype \in {"IN", "DEFECT", "FULL"}) => same
           /\ (last'.op = "movement_delete"
                 /\ \A i \in gone : ledger[i].type \in {"IN", "DEFECT", "FULL"}) => same
      ]_vars

\* a write-off of kegs has just been recorded for a client that was billed
\* a delivery
C15_Witness ==
    /\ last.op = "step4"
    /\ last.mtype = "DEFECT"
    /\ last.inserted > 0
    /\ ledger[Len(ledger)].qty > 0
    /\ IsBillableVariant[ledger[Len(ledger)].variant_id]
    /\ _beer_totals_for_client(ledger, last.client_id).beer_eur > 0

Alerted(alerts) == {alerts[i].variant_id : i \in 1..Len(alerts)}

(* C17: compute_reorder_alerts returns an alert for a variant if and only  *)
(* if the variant is not a maintenance cup, has a ReorderRule with         *)
(* min_qty > 0, and its Inventory.qty (0 when it has no row, any sign) is  *)
(* strictly less than min_qty; a variant without a ReorderRule never       *)
(* produces an alert; each alert carries the two values and their          *)
(* difference, and no variant is alerted twice.                            *)
C17_ReorderAlerts ==
    LET alerts == compute_reorder_alerts(inventory, reorder) IN
    /\ \A v \in Variants :
         v \in Alerted(alerts) <=>
             /\ Category[v] # "MAINTENANCE_CUP"
             /\ v \in DOMAIN reorder
             /\ reorder[v] > 0
             /\ InvQty(inventory, v) < reorder[v]
    /\ \A i \in 1..Len(alerts) :
         /\ alerts[i].inv_qty = InvQty(inventory, alerts[i].variant_id)
         /\ alerts[i].min_qty = reorder[alerts[i].variant_id]
         /\ alerts[i].missing = alerts[i].min_qty - alerts[i].inv_qty
         /\ \A j \in 1..Len(alerts) : alerts[j].variant_id = alerts[i].variant_id => j = i

\* the stock page shows two alerts, one of them for a negative count, and
\* none for the maintenance cup that is below its threshold
C17_Witness ==
    /\ last.op = "stock_get"
    /\ Len(last.view[1]) = 2
    /\ \E i \in 1..2 : last.view[1][i].inv_qty < 0
    /\ 4 \in DOMAIN reorder /\ InvQty(inventory, 4) < reorder[4]

(* C17 as stated: a variant is alerted if and only if it has a ReorderRule *)
(* and its Inventory.qty is strictly less than the rule's min_qty, for     *)
(* every min_qty, 0 included, and every signed inventory value.            *)
C17_AlertIffBelowMin ==
    \A v \in Variants :
        v \in Alerted(compute_reorder_alerts(inventory, reorder)) <=>
            (v \in DOMAIN reorder /\ InvQty(inventory, v) < reorder[v])

(* C18: the list compute_reorder_alerts returns is ordered by shortfall    *)
(* min_qty - inv_qty, descending.                                          *)
C18_AlertsByShortfall ==
    LET alerts == compute_reorder_alerts(inventory, reorder) IN
    \A i, j \in 1..Len(alerts) :
        i < j => alerts[i].min_qty - alerts[i].inv_qty
                   >= alerts[j].min_qty - alerts[j].inv_qty

EquipmentKeys == {"tireuse", "co2", "comptoir", "tonnelle"}

\* the value the client summary exposes for equipment key k
ExposedEquipment(L, c, k) == Get(summarize_client_detail(L, c).equipment, k, 0)

(* C19: for every client and every equipment key, the equipment in play    *)
(* the client summary exposes is max(0, net count), the net count being    *)
(* the sum over the client's movements of the count its notes encode for   *)
(* the key, +1 times for OUT and -1 times for IN / DEFECT / FULL.          *)
C19_EquipmentInPlay ==
    \A c \in clients : \A k \in EquipmentKeys :
        ExposedEquipment(ledger, c, k) = Max(0, EquipmentNet(ledger, c, k))

(* C20: the notes the wizard builds from the eq_* fields give back the     *)
(* same counts: once a first delivery of one line is recorded for a        *)
(* client, its notes are those of some eq_* fields and the client summary  *)
(* exposes, for each key, the count of these fields ("tireuse=1;co2=2"     *)
(* gives tireuse 1, co2 2, comptoir 0, tonnelle 0).                        *)
C20_NotesRoundTrip ==
    [][ ( /\ last'.op = "step4" /\ last'.inserted = 1 /\ last'.mtype = "OUT"
          /\ MovementsOf(ledger, last'.client_id) = <<>> ) =>
          LET c == last'.client_id
              m == MovementsOf(ledger', c)[1]
          IN \E eq \in DepositProfile.eqs :
                /\ m.notes = EquipmentNotes(eq)
                /\ \A k \in EquipmentKeys :
                      /\ ParsedCount(m.notes, k) = eq[k]
                      /\ ExposedEquipment(ledger', c, k) = eq[k]
      ]_vars

\* whether the lower-cased name holds one of the markers
HasMarker(name, markers) == \E m \in markers : Contains(Lower(name), m)

\* the category of a product name
Classification(name) ==
    LET cup == HasMarker(name, CupMarkers)
        maint == HasMarker(name, MaintenanceMarkers)
        equip == HasMarker(name, EquipmentMarkers) /\ HasMarker(name, {SeulMarker})
    IN IF equip THEN "EQUIPMENT_ONLY"
       ELSE IF cup /\ maint THEN "MAINTENANCE_CUP"
       ELSE IF cup THEN "REUSABLE_CUP"
       ELSE "STANDARD_UNIT"

(* C21: every product name, in any letter case, the empty name included    *)
(* (STANDARD_UNIT), gets exactly one category: no two of _is_cup_product,  *)
(* _is_cup_maintenance and _is_equipment_only hold for it, and the deposit *)
(* split, the revenue totals and movement recording all put the name in    *)
(* that one category.                                                      *)
C21_OneCategory ==
    last.op = "classify" =>
        LET r == last.view[1]
            cat == Classification(r.name)
        IN /\ ~(r.cup_product /\ r.cup_maintenance)
           /\ ~(r.cup_product /\ r.equipment_only)
           /\ ~(r.cup_maintenance /\ r.equipment_only)
           /\ r.name = <<>> => cat = "STANDARD_UNIT"
           /\ r.cup_product <=> cat = "REUSABLE_CUP"
           /\ r.cup_maintenance <=> cat = "MAINTENANCE_CUP"
           /\ r.equipment_only <=> cat = "EQUIPMENT_ONLY"
           /\ r.split_equipment <=> cat = "EQUIPMENT_ONLY"
           /\ r.split_cup <=> cat = "REUSABLE_CUP"
           /\ r.wizard_equipment <=> cat = "EQUIPMENT_ONLY"
           /\ r.cup_name <=> cat = "REUSABLE_CUP"
           /\ r.billable <=> cat \in {"REUSABLE_CUP", "STANDARD_UNIT"}

\* the set of the rows a request appended to the ledger
NewRows(L, L2) == {L2[i] : i \in (Len(L) + 1)..Len(L2)}

\* whether the text of a quantity field is a whole number >= 0
WellFormedQty(text) == text \in DOMAIN IntLiterals /\ IntLiterals[text] >= 0

(* C22: a batch line whose quantity field is not a number, or is negative, *)
(* is rejected: every movement a batch appends comes from a submitted line *)
(* on its variant whose quantity field is a whole number >= 0, and, unless *)
(* the product is equipment-only, is stored with that number as qty (never *)
(* with a 0 the field did not hold).                                       *)
C22_MalformedQtyRejected ==
    [][ last'.op = "step4" =>
          \A m \in NewRows(ledger, ledger') :
              \E ln \in EntryProfile.lines :
                  /\ ln.variant_id = m.variant_id
                  /\ WellFormedQty(ln.qty)
                  /\ Category[m.variant_id] # "EQUIPMENT_ONLY"
                        => m.qty = IntLiterals[ln.qty]
      ]_vars

(* C25: every movement on an EQUIPMENT_ONLY product is stored with qty 0,  *)
(* unit_price_ttc 0 and deposit_per_keg 0 whatever was submitted and       *)
(* whatever the movement type; return validation never refuses such a      *)
(* line, and recording it changes no Inventory counter.                    *)
C25_EquipmentLinesZeroed ==
    [][ last'.op = "step4" =>
          /\ \A m \in NewRows(ledger, ledger') :
                Category[m.variant_id] = "EQUIPMENT_ONLY" =>
                    /\ m.qty = 0
                    /\ m.unit_price_ttc = Some(0)
                    /\ m.deposit_per_keg = Some(0)
          /\ \A i \in 1..Len(last'.violations) :
                Category[last'.violations[i].variant_id] # "EQUIPMENT_ONLY"
          /\ \A v \in Variants :
                Category[v] = "EQUIPMENT_ONLY" =>
                    StockOf(inventory')[v] = StockOf(inventory)[v]
      ]_vars

\* a return and a delivery on the equipment-only product, submitted with
\* quantity 5, price 30 and deposit 30, are both stored, the return for a
\* client that holds nothing
C25_Witness ==
    /\ last.op = "step4"
    /\ \E i, j \in 1..Len(ledger) :
          /\ ledger[i].variant_id = 3 /\ ledger[i].type = "IN"
          /\ ledger[j].variant_id = 3 /\ ledger[j].type = "OUT"
          /\ ledger[i].client_id = ledger[j].client_id
          /\ i < j

\* the rows of L that are not on a maintenance-cup product
WithoutMaintenance(L) ==
    LET keep(m) == Category[m.variant_id] # "MAINTENANCE_CUP" IN SelectSeq(L, keep)

(* C26: movements on MAINTENANCE_CUP products are out of deposit           *)
(* accounting: a line recorded with no deposit submitted is stored with    *)
(* deposit 0, and the two totals of compute_deposits_split are what they   *)
(* are without the client's maintenance-cup rows.                          *)
C26_MaintenanceNoDeposit ==
    /\ \A i \in 1..Len(ledger) :
          Category[ledger[i].variant_id] = "MAINTENANCE_CUP" =>
              ledger[i].deposit_per_keg = Some(0)
    /\ \A c \in ClientIds :
          LET d == compute_deposits_split(ledger, c)
              e == compute_deposits_split(WithoutMaintenance(ledger), c)
          IN d.cup_eur = e.cup_eur /\ d.keg_eur = e.keg_eur

\* the row of L with primary key id
RowById(L, id) == L[CHOOSE i \in 1..Len(L) : L[i].id = id]

Ids(L) == {L[i].id : i \in 1..Len(L)}

(* C27: the ledger is append / delete only: no request changes a field of  *)
(* a movement that is stored before and after it, and a change of a        *)
(* variant's price_ttc on the catalogue page changes neither the unit      *)
(* price stored in any movement nor any client's billed amount.            *)
C27_AppendDeleteOnly ==
    [][ /\ \A id \in Ids(ledger) \cap Ids(ledger') :
              RowById(ledger', id) = RowById(ledger, id)
        /\ last'.op = "catalog" =>
              /\ Ids(ledger') = Ids(ledger)
              /\ \A c \in ClientIds :
                    (_beer_totals_for_client(ledger, c).beer_eur)'
                      = _beer_totals_for_client(ledger, c).beer_eur
      ]_vars

\* the price of the keg variant is no longer the price at which a client's
\* delivery was recorded with no price entered
C27_Witness ==
    /\ last.op = "catalog"
    /\ \E i \in 1..Len(ledger) :
          /\ ledger[i].variant_id = 1 /\ ledger[i].type = "OUT"
          /\ ledger[i].unit_price_ttc = Some(100000)
          /\ price_ttc[1] = Some(30000)

(* C28: every movement stored in the ledger, in every reachable state, has *)
(* its type in {OUT, IN, DEFECT, FULL} and qty >= 0.                       *)
C28_TypeAndQty ==
    \A i \in 1..Len(ledger) :
        /\ ledger[i].type \in {"OUT", "IN", "DEFECT", "FULL"}
        /\ ledger[i].qty >= 0

\* Inventory.qty of v minus what the stored movements on v add up to
\* (restocked minus delivered)
Drift(inv, L, v) == InvQty(inv, v) - StockDeltaOf(L, v)

(* C29: the Inventory cache never drifts from the ledger: for every        *)
(* variant, Inventory.qty minus (qty of the stored FULL movements minus    *)
(* qty of the stored OUT movements) is left as it is by every step of      *)
(* every batch, movement deletion and client deletion, finished or failed; *)
(* only a count typed on the stock page changes it.                        *)
C29_NoDrift ==
    [][ last'.op # "stock" =>
          \A v \in Variants :
              Drift(inventory', ledger', v) = Drift(inventory, ledger, v)
      ]_vars

\* a client with a delivery was deleted, after a count of 3 was typed on
\* the stock page: the deletion moved the stock and the difference is still 3
C29_Witness ==
    /\ last.op = "client_delete"
    /\ ~last.blocked
    /\ InvQty(inventory, 1) # last.inv0[1][1]
    /\ Drift(inventory, ledger, 1) = 3

(* C30: within one IN batch, the quantities of the accepted lines on one   *)
(* variant add up to at most the client's open quantity on that variant    *)
(* before the batch, so the open quantity after the batch is >= 0.         *)
C30_BatchWithinOpen ==
    [][ (last'.op = "step4" /\ last'.mtype = "IN") =>
          \A v \in Variants :
              LET c == last'.client_id
                  accepted == {m \in NewRows(ledger, ledger') : m.variant_id = v}
                  returned == SumOver([m \in accepted |-> m.qty], accepted)
              IN accepted # {} =>
                    /\ returned <= OpenQty(ledger, c, v)
                    /\ OpenQty(ledger', c, v) >= 0
      ]_vars

(* C24: when recording a batch fails at any point of step 4, after zero or *)
(* more of its lines were added and their stock changes applied, no        *)
(* movement and no stock change of the batch is persisted, and the next    *)
(* batch that commits persists its own lines and their stock changes only. *)
C24_FailedBatchLeavesNothing ==
    [][ /\ last'.op = "step4_failed" =>
              /\ ledger' = ledger
              /\ inventory' = inventory
        /\ (last.op = "step4_failed" /\ last'.op = "step4") =>
              /\ Len(ledger') = Len(ledger) + last'.inserted
              /\ \A m \in NewRows(ledger, ledger') :
                    m.client_id = last'.client_id /\ m.type = last'.mtype
              /\ \A v \in Variants :
                    InvQty(inventory', v)
                      = InvQty(inventory, v)
                          + StockDeltaOf(Appended(ledger, ledger'), v)
      ]_vars

\* a batch has failed after one of its lines, a delivery, was added and
\* taken out of stock
C24_Witness ==
    /\ last.op = "step4_failed"
    /\ last.mtype = "OUT"
    /\ last.done >= 1

\* the change of Inventory.qty of v a committed request stands for
RequestDelta(q, v) ==
    IF q.mv.variant_id # v THEN 0
    ELSE IF q.kind = "step4" THEN StockDelta(q.mv)
    ELSE 0 - StockDelta(q.mv)

(* C23: when two requests that each record or delete a movement on the     *)
(* same variant run at the same time, no stock update is lost: once both   *)
(* have committed, Inventory.qty of every variant is its value before the  *)
(* first of them began plus the changes of both.                           *)
C23_NoLostUpdate ==
    (last.op = "concurrent" /\ Len(last.view[1]) = 2) =>
        LET done == last.view[1] IN
        \A v \in Variants :
            InvQty(inventory, v)
              = last.inv0[1][v] + RequestDelta(done[1], v) + RequestDelta(done[2], v)

\* the ledger without the rows the requests in done committed
LedgerBefore(L, done) ==
    LET ids == {done[i].mv.id : i \in 1..Len(done)}
        kept(m) == m.id \notin ids
    IN SelectSeq(L, kept)

(* C31: when two return batches for the same client and variant run at the *)
(* same time, each within the open balance they started from, the open     *)
(* quantity of that client and variant is >= 0 once both have committed.   *)
C31_ConcurrentReturnsWithinOpen ==
    (last.op = "concurrent" /\ Len(last.view[1]) = 2) =>
        LET done == last.view[1]
            a == done[1].mv
            b == done[2].mv
            open0 == OpenQty(LedgerBefore(ledger, done), a.client_id, a.variant_id)
        IN ( /\ a.type = "IN" /\ b.type = "IN"
             /\ a.client_id = b.client_id
             /\ a.variant_id = b.variant_id
             /\ a.qty <= open0 /\ b.qty <= open0 )
           => OpenQty(ledger, a.client_id, a.variant_id) >= 0

(* C32: every stored movement references an existing client; a wizard     *)
(* that chose a client before the client was deleted appends no movement   *)
(* for it at step 4.                                                       *)
C32_MovementsOfExistingClients ==
    \A i \in 1..Len(ledger) : ledger[i].client_id \in clients

\* the sum over all variants of the signed open quantities of client c
SignedOpen(L, c) ==
    LET open_map == _open_qty_by_variant(L, c)
    IN SumValues(open_map, DOMAIN open_map)

\* whether client c has returned more of some variant than it was delivered
OverReturned(L, c) ==
    LET open_map == _open_qty_by_variant(L, c)
    IN \E v \in DOMAIN open_map : open_map[v] < 0

(* C33: for every client, after any sequence of recordings and deletions,  *)
(* cup_qty + keg_qty of compute_deposits_split equals the sum over all     *)
(* variants of the signed open quantity of _open_qty_by_variant; the       *)
(* index summary's open_total is that sum, and it differs from the         *)
(* deletion guard's sum of the positive balances exactly when some variant *)
(* is over-returned.                                                       *)
C33_FoldsAgree ==
    \A c \in ClientIds :
        LET d == compute_deposits_split(ledger, c)
            idx == summarize_client_for_index(ledger, c)
            g == delete_guard(ledger, c)
        IN /\ d.cup_qty + d.keg_qty = SignedOpen(ledger, c)
           /\ idx.open_total = SignedOpen(ledger, c)
           /\ (idx.open_total # g.open_total) <=> OverReturned(ledger, c)

\* a client with a keg over-returned and a line of equipment alone: the
\* index shows a negative total where the guard counts 0
C33_Witness ==
    \E c \in clients :
        /\ OverReturned(ledger, c)
        /\ \E i \in 1..Len(ledger) :
             ledger[i].client_id = c /\ IsEquipmentOnlyVariant[ledger[i].variant_id]
        /\ summarize_client_for_index(ledger, c).open_total < 0
        /\ delete_guard(ledger, c).open_total = 0

\* the movements of client c
RowsOfClient(L, c) == {i \in 1..Len(L) : L[i].client_id = c}

\* whether all movements of client c on one variant carry the same deposit
UniformDeposits(L, c) ==
    \A i, j \in RowsOfClient(L, c) :
        L[i].variant_id = L[j].variant_id => L[i].deposit_per_keg = L[j].deposit_per_keg

\* whether the open quantity of client c is 0 for every variant
NothingOpen(L, c) == \A v \in Variants : OpenQty(L, c, v) = 0

\* whether some return of client c carries another deposit than a delivery
\* of the same variant
ReturnOverridden(L, c) ==
    \E i, j \in RowsOfClient(L, c) :
        /\ L[i].type = "OUT" /\ L[j].type = "IN"
        /\ L[i].variant_id = L[j].variant_id
        /\ L[i].deposit_per_keg # L[j].deposit_per_keg

(* C34: when all movements of a client on each variant carry the same      *)
(* deposit per unit and the client's open quantity is 0 for every variant, *)
(* the cup and the keg deposit totals are both 0 and client_delete is not  *)
(* blocked.                                                                *)
C34_UniformDepositsCancel ==
    \A c \in clients :
        (UniformDeposits(ledger, c) /\ NothingOpen(ledger, c)) =>
            LET d == compute_deposits_split(ledger, c)
            IN /\ d.cup_eur = 0
               /\ d.keg_eur = 0
               /\ ~ delete_guard(ledger, c).blocked

\* one client has returned all it was delivered at the deposit of the
\* delivery and can be deleted; another has returned all at another deposit
\* than the delivery's, has nothing open and is blocked by the deposit total
C34_Witness ==
    \E c, c2 \in clients :
        /\ RowsOfClient(ledger, c) # {}
        /\ UniformDeposits(ledger, c) /\ NothingOpen(ledger, c)
        /\ ~ delete_guard(ledger, c).blocked
        /\ ReturnOverridden(ledger, c2) /\ NothingOpen(ledger, c2)
        /\ delete_guard(ledger, c2).open_total = 0
        /\ delete_guard(ledger, c2).deposit_in_play # 0
        /\ delete_guard(ledger, c2).blocked

=============================================================================
